---- MODULE Spec2Model ----
(***************************************************************************)
(* A model of jeswr/vc-cli.js: the bbs-2023 proof envelope codec           *)
(* (lib/proofValue.js), the verify-data builder (lib/verify.js) and the    *)
(* sign / derive / verify dispatch of index.js.                            *)
(*                                                                         *)
(* JavaScript values are records [t |-> <type>, v |-> <value>].  Strings   *)
(* and byte arrays are sequences of character codes / bytes (0..255), so   *)
(* that the multibase, base64url and CBOR conversions are computed, not    *)
(* assumed.                                                                *)
(***************************************************************************)
EXTENDS Integers, Sequences, FiniteSets, TLC

VARIABLES
    \* ---- proof envelope codec (SpecCodec) ----
    cpc,        \* "start" | "encoded" | "mangled" | "parsed"
    cKind,      \* "none" | "envelope" | "payload": what was encoded
    cEnv,       \* the envelope that was serialized (NoParams for a raw payload)
    cItem,      \* the CBOR data item that follows the tag on the wire
    cBytes,     \* the binary that the proofValue text encodes
    cProof,     \* the proof object handed to parseDisclosureProofValue
    cMangle,    \* how the proofValue was damaged after encoding ("none" if not)
    cLenient,   \* which base64url build decoded it
    cResult,    \* outcome of parseDisclosureProofValue
    \* ---- credential lifecycle (Spec) ----
    cids,       \* controller -> its CID document (NoCid before generate-cid)
    keyStores,  \* controller -> the private keys generated with its CID document
    oracle,     \* every signature and proof the external signers have produced
    document,   \* the credential object being signed, derived and verified
    stage,      \* "Unsigned" | "Signed" | "Derived"
    signer,     \* the verification method that signed `document`
    tamper,     \* what was altered in `document` after it was signed
    last,       \* the outcome of the latest API call (and the pointers it
                \* revealed, if it derived a credential)
    signCall,   \* the options of the latest signCredential call, and the
                \* mandatory pointers it handed to the signer
    \* ---- one call of _createVerifyData (SpecVerifyData) ----
    vpc,        \* "idle" | "called" | "parsed" | "canonized" | "partitioned"
                \* | "hashed" | "done": where the body of the call stands
    vDoc,       \* the document the call was given
    vEnv,       \* how the computations of di-sd-primitives end in this call
    vPromise,   \* proofHashPromise
    vLocal,     \* the locals of the call
    vOut,       \* how the call ended
    \* ---- the key family of one verification method (SpecClassify) ----
    kKey,       \* its publicKeyMultibase
    kSign,      \* the suite signCredential picked for it ("none" before)
    kVerify,    \* the suite verifyCredential picked for it ("none" before)
    \* ---- preprocessEd25519Verification (SpecPreprocess) ----
    pre,        \* the latest call: its digests, the message it handed to the
                \* verifier, and how it ended
    \* ---- the loader built by cidDocumentLoader (SpecLoader) ----
    load,       \* the latest call: the CID document, the URL asked for, the
                \* URLs the fallback loader was asked for, and the outcome
    \* ---- bbs-verify-preprocess, ed25519-verify-preprocess (SpecBatch) ----
    batch,      \* one run of the command: its options, the files to process,
                \* the file it stands at, what it reported and wrote, and
                \* its exit status
    \* ---- documentLoader.js (SpecCache) ----
    dl,         \* the two cache directories, the calls of documentLoader so
                \* far and the latest one
    \* ---- generate-cid runs on one private-keys file (SpecKeyStore) ----
    ks,         \* the CID document files and the private-keys file on disk,
                \* and the number of runs so far
    \* ---- generate (SpecGenerate) ----
    gen         \* one run of the command: its options, the phase and the
                \* place in its loops, the files written and the checks made

codecVars == <<cpc, cKind, cEnv, cItem, cBytes, cProof, cMangle, cLenient, cResult>>

lifeVars == <<cids, keyStores, oracle, document, stage, signer, tamper, last,
              signCall>>

verifyVars == <<vpc, vDoc, vEnv, vPromise, vLocal, vOut>>

classifyVars == <<kKey, kSign, kVerify>>

preprocessVars == <<pre>>

toolVars == <<load, batch, dl, ks, gen>>

vars == <<cpc, cKind, cEnv, cItem, cBytes, cProof, cMangle, cLenient, cResult,
          cids, keyStores, oracle, document, stage, signer, tamper, last,
          signCall,
          vpc, vDoc, vEnv, vPromise, vLocal, vOut, kKey, kSign, kVerify, pre,
          load, batch, dl, ks, gen>>

\* what the steps of one part of the program leave alone
notCodecVars == <<lifeVars, verifyVars, classifyVars, preprocessVars,
    toolVars>>
notLifeVars == <<codecVars, verifyVars, classifyVars, preprocessVars,
    toolVars>>
notVerifyVars == <<codecVars, lifeVars, classifyVars, preprocessVars,
    toolVars>>
notClassifyVars == <<codecVars, lifeVars, verifyVars, preprocessVars,
    toolVars>>
notPreprocessVars == <<codecVars, lifeVars, verifyVars, classifyVars,
    toolVars>>
coreVars == <<codecVars, lifeVars, verifyVars, classifyVars, preprocessVars>>
notLoadVars == <<coreVars, batch, dl, ks, gen>>
notBatchVars == <<coreVars, load, dl, ks, gen>>
notCacheVars == <<coreVars, load, batch, ks, gen>>
notKeyStoreVars == <<coreVars, load, batch, dl, gen>>
notGenerateVars == <<coreVars, load, batch, dl, ks>>

\* no call of the command-line tools and loaders has been made
NoLoad ==
    [cid |-> [id |-> <<>>], url |-> <<>>, found |-> FALSE, consulted |-> <<>>,
     outcome |-> [kind |-> "none", value |-> FALSE, error |-> <<"", "">>]]
NoBatch ==
    [pc |-> "idle", command |-> "none", files |-> <<>>, output |-> "none",
     outputNow |-> "none", next |-> 0, reported |-> <<>>, written |-> <<>>,
     status |-> 0]
NoDisk == [pc |-> "idle"]
NoKeyFiles == [pc |-> "idle"]
NoGenerate == [pc |-> "idle"]
ToolsIdle ==
    /\ load = NoLoad
    /\ batch = NoBatch
    /\ dl = NoDisk
    /\ ks = NoKeyFiles
    /\ gen = NoGenerate

-----------------------------------------------------------------------------
(* Bounds of the model.                                                    *)

\* longest mandatoryIndexes / selectiveIndexes array of a generated envelope
MaxIdxLen == 2
\* most entries of a generated label map
MaxLabels == 2
\* bytes of a digest
DigestLen == 2
\* longest publicKeyMultibase classified
MaxKeyLen == 5

-----------------------------------------------------------------------------
(* JavaScript values.                                                      *)

JsNum(n) == [t |-> "number", v |-> n]
JsStr(s) == [t |-> "string", v |-> s]
JsBytes(b) == [t |-> "uint8array", v |-> b]
JsArr(a) == [t |-> "array", v |-> a]
\* a Map: its entries <<key, value>> in insertion order
JsMap(p) == [t |-> "map", v |-> p]
JsNull == [t |-> "null", v |-> <<>>]
JsUndef == [t |-> "undefined", v |-> <<>>]
\* a CBOR data item carrying tag 64 (only ever an encoder's input)
Tag64(x) == [t |-> "tag64", v |-> <<x>>]

\* character codes of the literals the code uses
Str_u == <<117>>
Str_c14n == <<99, 49, 52, 110>>
Str_b == <<98>>
Str_null == <<110, 117, 108, 108>>
Str_undefined == <<117, 110, 100, 101, 102, 105, 110, 101, 100>>
Str_objectMap == <<91, 111, 98, 106, 101, 99, 116, 32, 77, 97, 112, 93>>

\* Number.prototype.toString for an integer
RECURSIVE DecString(_)
DecString(n) ==
    IF n < 0 THEN <<45>> \o DecString(-n)
    ELSE IF n < 10 THEN <<48 + n>>
    ELSE DecString(n \div 10) \o <<48 + (n % 10)>>

RECURSIVE JoinComma(_)
RECURSIVE JsToString(_)
\* Array.prototype.join(','): null and undefined elements give the empty string
JoinComma(items) ==
    IF Len(items) = 0 THEN <<>>
    ELSE LET h == IF Head(items).t \in {"null", "undefined"} THEN <<>>
                  ELSE JsToString(Head(items))
         IN IF Len(items) = 1 THEN h ELSE h \o <<44>> \o JoinComma(Tail(items))

\* the string a template literal `${x}` interpolates
JsToString(x) ==
    CASE x.t = "number" -> DecString(x.v)
      [] x.t = "string" -> x.v
      [] x.t = "null" -> Str_null
      [] x.t = "undefined" -> Str_undefined
      [] x.t = "uint8array" -> JoinComma([i \in 1..Len(x.v) |-> JsNum(x.v[i])])
      [] x.t = "array" -> JoinComma(x.v)
      [] x.t = "map" -> Str_objectMap

\* SameValueZero, the key equality of a Map: objects are equal only to themselves
SameValueZero(a, b) ==
    /\ a.t = b.t
    /\ a.t \in {"number", "string", "null", "undefined"}
    /\ a.v = b.v

\* Map.prototype.set: an existing key keeps its place and takes the new value
MapSet(pairs, k, val) ==
    IF \E i \in 1..Len(pairs) : SameValueZero(pairs[i][1], k)
    THEN [i \in 1..Len(pairs) |->
            IF SameValueZero(pairs[i][1], k) THEN <<k, val>> ELSE pairs[i]]
    ELSE Append(pairs, <<k, val>>)

-----------------------------------------------------------------------------
(* base64url (no padding).                                                 *)

B64Char(i) ==
    IF i < 26 THEN 65 + i
    ELSE IF i < 52 THEN 97 + (i - 26)
    ELSE IF i < 62 THEN 48 + (i - 52)
    ELSE IF i = 62 THEN 45 ELSE 95

B64Index(c) ==
    IF c >= 65 /\ c <= 90 THEN c - 65
    ELSE IF c >= 97 /\ c <= 122 THEN c - 97 + 26
    ELSE IF c >= 48 /\ c <= 57 THEN c - 48 + 52
    ELSE IF c = 45 THEN 62
    ELSE IF c = 95 THEN 63
    ELSE -1

RECURSIVE Base64urlEncode(_)
Base64urlEncode(b) ==
    IF Len(b) = 0 THEN <<>>
    ELSE IF Len(b) = 1 THEN
        <<B64Char(b[1] \div 4), B64Char((b[1] % 4) * 16)>>
    ELSE IF Len(b) = 2 THEN
        <<B64Char(b[1] \div 4), B64Char((b[1] % 4) * 16 + (b[2] \div 16)),
          B64Char((b[2] % 16) * 4)>>
    ELSE <<B64Char(b[1] \div 4), B64Char((b[1] % 4) * 16 + (b[2] \div 16)),
           B64Char((b[2] % 16) * 4 + (b[3] \div 64)), B64Char(b[3] % 64)>>
         \o Base64urlEncode(SubSeq(b, 4, Len(b)))

\* the 6-bit values of a text whose characters are all of the alphabet
RECURSIVE B64Sextets(_)
B64Sextets(s) ==
    IF Len(s) = 0 THEN <<>> ELSE <<B64Index(Head(s))>> \o B64Sextets(Tail(s))

RECURSIVE B64Bytes(_)
B64Bytes(e) ==
    IF Len(e) < 2 THEN <<>>
    ELSE IF Len(e) = 2 THEN <<e[1] * 4 + (e[2] \div 16)>>
    ELSE IF Len(e) = 3 THEN
        <<e[1] * 4 + (e[2] \div 16), (e[2] % 16) * 16 + (e[3] \div 4)>>
    ELSE <<e[1] * 4 + (e[2] \div 16), (e[2] % 16) * 16 + (e[3] \div 4),
           (e[3] % 4) * 64 + e[4]>>
         \o B64Bytes(SubSeq(e, 5, Len(e)))

\* base64url.decode.  The package has a strict build (a character outside the
\* alphabet, or a length of 1 mod 4, throws) and a lenient one (Buffer-based:
\* such characters are skipped and a dangling sextet is dropped); `lenient`
\* says which one is installed.
Base64urlDecode(s, lenient) ==
    LET good == SelectSeq(s, LAMBDA c : B64Index(c) >= 0)
    IN IF lenient THEN [ok |-> TRUE, bytes |-> B64Bytes(B64Sextets(good))]
       ELSE IF good # s \/ Len(s) % 4 = 1 THEN [ok |-> FALSE, bytes |-> <<>>]
       ELSE [ok |-> TRUE, bytes |-> B64Bytes(B64Sextets(s))]

-----------------------------------------------------------------------------
(* CBOR, as cborg encodes and decodes it (arguments below 256).            *)

CborHead(major, n) ==
    IF n < 24 THEN <<major * 32 + n>> ELSE <<major * 32 + 24, n>>

CborMajor(x) ==
    CASE x.t = "number" -> IF x.v >= 0 THEN 0 ELSE 1
      [] x.t = "uint8array" -> 2
      [] x.t = "string" -> 3
      [] x.t = "array" -> 4
      [] x.t = "map" -> 5
      [] x.t = "tag64" -> 6
      [] OTHER -> 7

RECURSIVE BytesLess(_, _)
BytesLess(a, b) ==
    IF Len(a) # Len(b) THEN Len(a) < Len(b)
    ELSE IF Len(a) = 0 THEN FALSE
    ELSE IF a[1] # b[1] THEN a[1] < b[1]
    ELSE BytesLess(Tail(a), Tail(b))

RECURSIVE CborEncode(_)
RECURSIVE CborEncodeAll(_)
RECURSIVE CborEncodePairs(_)
RECURSIVE SortPairs(_)

\* the encoder writes a map's entries sorted by key: major type first, then
\* the shorter encoding, then bytewise
KeyLess(a, b) ==
    IF CborMajor(a) # CborMajor(b) THEN CborMajor(a) < CborMajor(b)
    ELSE BytesLess(CborEncode(a), CborEncode(b))

InsertPair(p, sorted) ==
    LET n == Cardinality({i \in 1..Len(sorted) : KeyLess(sorted[i][1], p[1])})
    IN SubSeq(sorted, 1, n) \o <<p>> \o SubSeq(sorted, n + 1, Len(sorted))

SortPairs(pairs) ==
    IF Len(pairs) = 0 THEN <<>>
    ELSE InsertPair(Head(pairs), SortPairs(Tail(pairs)))

CborEncodeAll(items) ==
    IF Len(items) = 0 THEN <<>>
    ELSE CborEncode(Head(items)) \o CborEncodeAll(Tail(items))

CborEncodePairs(pairs) ==
    IF Len(pairs) = 0 THEN <<>>
    ELSE CborEncode(Head(pairs)[1]) \o CborEncode(Head(pairs)[2])
         \o CborEncodePairs(Tail(pairs))

CborEncode(x) ==
    CASE x.t = "number" ->
            IF x.v >= 0 THEN CborHead(0, x.v) ELSE CborHead(1, -1 - x.v)
      [] x.t = "uint8array" -> CborHead(2, Len(x.v)) \o x.v
      [] x.t = "string" -> CborHead(3, Len(x.v)) \o x.v
      [] x.t = "array" -> CborHead(4, Len(x.v)) \o CborEncodeAll(x.v)
      [] x.t = "map" -> CborHead(5, Len(x.v)) \o CborEncodePairs(SortPairs(x.v))
      [] x.t = "tag64" -> CborHead(6, 64) \o CborEncode(x.v[1])
      [] x.t = "null" -> <<246>>
      [] x.t = "undefined" -> <<247>>

CborFail(why) == [ok |-> FALSE, val |-> JsUndef, rest |-> <<>>, why |-> why]
CborOk(val, rest) == [ok |-> TRUE, val |-> val, rest |-> rest, why |-> ""]

\* TAGS[64]: the tagged content is returned as it was decoded
_decodeUint8Array(bytes) == bytes

\* the argument of the head byte at the front of b
CborArg(b) ==
    LET info == b[1] % 32
    IN IF info < 24 THEN CborOk(info, Tail(b))
       ELSE IF info = 24 THEN
            IF Len(b) >= 2 THEN CborOk(b[2], SubSeq(b, 3, Len(b)))
            ELSE CborFail("unexpected end of input")
       ELSE CborFail("head not modelled")

RECURSIVE MapFromItems(_, _)
MapFromItems(items, acc) ==
    IF Len(items) < 2 THEN acc
    ELSE MapFromItems(SubSeq(items, 3, Len(items)),
                      MapSet(acc, items[1], items[2]))

RECURSIVE CborDecodeItem(_)
RECURSIVE CborDecodeMany(_, _)

CborDecodeMany(b, n) ==
    IF n = 0 THEN CborOk(<<>>, b)
    ELSE LET h == CborDecodeItem(b)
         IN IF ~h.ok THEN h
            ELSE LET r == CborDecodeMany(h.rest, n - 1)
                 IN IF ~r.ok THEN r ELSE CborOk(<<h.val>> \o r.val, r.rest)

CborDecodeItem(b) ==
    IF Len(b) = 0 THEN CborFail("unexpected end of input")
    ELSE IF b[1] = 246 THEN CborOk(JsNull, Tail(b))
    ELSE IF b[1] = 247 THEN CborOk(JsUndef, Tail(b))
    ELSE IF b[1] \div 32 = 7 THEN CborFail("head not modelled")
    ELSE
      LET major == b[1] \div 32
          a == CborArg(b)
      IN IF ~a.ok THEN a
         ELSE CASE major = 0 -> CborOk(JsNum(a.val), a.rest)
                [] major = 1 -> CborOk(JsNum(-1 - a.val), a.rest)
                [] major \in {2, 3} ->
                    IF Len(a.rest) < a.val
                    THEN CborFail("unexpected end of input")
                    ELSE CborOk(IF major = 2
                                THEN JsBytes(SubSeq(a.rest, 1, a.val))
                                ELSE JsStr(SubSeq(a.rest, 1, a.val)),
                                SubSeq(a.rest, a.val + 1, Len(a.rest)))
                [] major = 4 ->
                    LET r == CborDecodeMany(a.rest, a.val)
                    IN IF ~r.ok THEN r ELSE CborOk(JsArr(r.val), r.rest)
                [] major = 5 ->
                    LET r == CborDecodeMany(a.rest, 2 * a.val)
                    IN IF ~r.ok THEN r
                       ELSE CborOk(JsMap(MapFromItems(r.val, <<>>)), r.rest)
                [] major = 6 ->
                    IF a.val # 64 THEN CborFail("tag not supported")
                    ELSE LET r == CborDecodeItem(a.rest)
                         IN IF ~r.ok THEN r
                            ELSE CborOk(_decodeUint8Array(r.val), r.rest)

\* cborg.decode(payload, {useMaps: true, tags: TAGS}): one item, nothing after
CborDecode(payload) ==
    LET r == CborDecodeItem(payload)
    IN IF ~r.ok THEN r
       ELSE IF Len(r.rest) # 0 THEN CborFail("too many terminals")
       ELSE r

-----------------------------------------------------------------------------
(* lib/proofValue.js                                                       *)

CBOR_PREFIX_DERIVED == <<217, 93, 3>>

\* a loop that stops one byte early
StartsWithBytesOneShort(buffer, prefix) ==
    \A i \in 1..(Len(prefix) - 1) : i <= Len(buffer) /\ buffer[i] = prefix[i]

\* buffer[i] is undefined past the end of the buffer, and so differs
_startsWithBytes(buffer, prefix) ==
    \A i \in 1..Len(prefix) : i <= Len(buffer) /\ buffer[i] = prefix[i]

\* what compressedLabelMap.entries() iterates, when it has such a method
HasEntries(x) == x.t \in {"map", "array", "uint8array"}
Entries(x) ==
    CASE x.t = "map" -> x.v
      [] x.t = "array" -> [i \in 1..Len(x.v) |-> <<JsNum(i - 1), x.v[i]>>]
      [] x.t = "uint8array" ->
            [i \in 1..Len(x.v) |-> <<JsNum(i - 1), JsNum(x.v[i])>>]

RECURSIVE DecompressInto(_, _)
DecompressInto(entries, map) ==
    IF Len(entries) = 0 THEN map
    ELSE DecompressInto(Tail(entries),
            MapSet(map, JsStr(Str_c14n \o JsToString(Head(entries)[1])),
                        JsStr(Str_b \o JsToString(Head(entries)[2]))))

\* key and value taken the wrong way round
DecompressSwapped(compressedLabelMap) ==
    JsMap(DecompressInto(
        [i \in 1..Len(Entries(compressedLabelMap)) |->
            <<Entries(compressedLabelMap)[i][2], Entries(compressedLabelMap)[i][1]>>],
        <<>>))

_decompressLabelMap(compressedLabelMap) ==
    JsMap(DecompressInto(Entries(compressedLabelMap), <<>>))

IsIntegerArray(x) ==
    x.t = "array" /\ \A i \in 1..Len(x.v) : x.v[i].t = "number"

\* a validation that forgets selectiveIndexes
ValidateWithoutSelective(params) ==
    IF params.bbsProof.t # "uint8array" THEN "bbsProof must be a Uint8Array"
    ELSE IF ~IsIntegerArray(params.mandatoryIndexes)
        THEN "mandatoryIndexes must be an array of integers"
    ELSE IF params.presentationHeader.t # "uint8array"
        THEN "presentationHeader must be a Uint8Array"
    ELSE ""

\* "" when the parameters pass, else the TypeError's message
_validateDerivedProofParams(params) ==
    IF params.bbsProof.t # "uint8array" THEN "bbsProof must be a Uint8Array"
    ELSE IF ~(params.labelMap.t = "map" /\
              \A i \in 1..Len(params.labelMap.v) :
                 /\ params.labelMap.v[i][1].t = "string"
                 /\ params.labelMap.v[i][2].t = "string")
        THEN "labelMap must be a Map of strings to strings"
    ELSE IF ~IsIntegerArray(params.mandatoryIndexes)
        THEN "mandatoryIndexes must be an array of integers"
    ELSE IF ~IsIntegerArray(params.selectiveIndexes)
        THEN "selectiveIndexes must be an array of integers"
    ELSE IF params.presentationHeader.t # "uint8array"
        THEN "presentationHeader must be a Uint8Array"
    ELSE ""

NoParams ==
    [bbsProof |-> JsUndef, labelMap |-> JsUndef, mandatoryIndexes |-> JsUndef,
     selectiveIndexes |-> JsUndef, presentationHeader |-> JsUndef]

\* a catch block that rethrows what it caught
ParseRethrows(causeName, causeMessage) ==
    [ok |-> FALSE, params |-> NoParams, name |-> causeName,
     message |-> causeMessage, cause |-> [name |-> "", message |-> ""]]

\* the catch block: one TypeError, the thrown error kept as its cause
ParseThrows(causeName, causeMessage) ==
    [ok |-> FALSE, params |-> NoParams, name |-> "TypeError",
     message |-> "The proof does not include a valid proofValue property",
     cause |-> [name |-> causeName, message |-> causeMessage]]

ParseReturns(params) ==
    [ok |-> TRUE, params |-> params, name |-> "", message |-> "",
     cause |-> [name |-> "", message |-> ""]]

\* what destructuring  const [a, b, c, d, e] = value  iterates
IsIterable(x) == x.t \in {"array", "uint8array", "string", "map"}
IterableItems(x) ==
    CASE x.t = "array" -> x.v
      [] x.t = "uint8array" -> [i \in 1..Len(x.v) |-> JsNum(x.v[i])]
      [] x.t = "string" -> [i \in 1..Len(x.v) |-> JsStr(<<x.v[i]>>)]
      [] x.t = "map" -> [i \in 1..Len(x.v) |-> JsArr(x.v[i])]
Nth(items, i) == IF i <= Len(items) THEN items[i] ELSE JsUndef

\* a check against the multibase prefix of another encoding
NotBase58Multibase(s) == Len(s) = 0 \/ s[1] # 122

\* proof.proofValue[0] !== 'u'  ('' [0] is undefined)
NotBase64urlMultibase(s) == Len(s) = 0 \/ s[1] # Str_u[1]

\* proof: the proof object, proof.proofValue being JsUndef when the proof or
\* the property is absent (proof?.proofValue)
parseDisclosureProofValue(proof, lenient) ==
    IF proof.proofValue.t # "string"
    THEN ParseThrows("TypeError", "proof.proofValue must be a string")
    ELSE IF NotBase64urlMultibase(proof.proofValue.v)
    THEN ParseThrows("Error", "Only base64url multibase encoding is supported")
    ELSE
      LET dec == Base64urlDecode(Tail(proof.proofValue.v), lenient)
      IN IF ~dec.ok THEN ParseThrows("Error", "base64url.decode")
         ELSE IF ~_startsWithBytes(dec.bytes, CBOR_PREFIX_DERIVED)
         THEN ParseThrows("TypeError", "proof.proofValue must be a derived proof")
         ELSE
           LET payload == SubSeq(dec.bytes, Len(CBOR_PREFIX_DERIVED) + 1,
                                 Len(dec.bytes))
               d == CborDecode(payload)
           IN IF ~d.ok THEN ParseThrows("Error", d.why)
              ELSE IF ~IsIterable(d.val)
              THEN ParseThrows("TypeError", "not iterable")
              ELSE
                LET items == IterableItems(d.val)
                    compressedLabelMap == Nth(items, 2)
                IN IF ~HasEntries(compressedLabelMap)
                   THEN ParseThrows("TypeError", "compressedLabelMap.entries")
                   ELSE
                     LET params ==
                           [bbsProof |-> Nth(items, 1),
                            labelMap |-> _decompressLabelMap(compressedLabelMap),
                            mandatoryIndexes |-> Nth(items, 3),
                            selectiveIndexes |-> Nth(items, 4),
                            presentationHeader |-> Nth(items, 5)]
                         bad == _validateDerivedProofParams(params)
                     IN IF bad # "" THEN ParseThrows("TypeError", bad)
                        ELSE ParseReturns(params)

-----------------------------------------------------------------------------
(* The encoder of the envelope (the inverse of parseDisclosureProofValue). *)

RECURSIVE ParseDec(_)
ParseDec(s) ==
    IF Len(s) = 0 THEN 0
    ELSE IF s[1] = 45 THEN 0 - ParseDec(Tail(s))
    ELSE ParseDec(SubSeq(s, 1, Len(s) - 1)) * 10 + (s[Len(s)] - 48)

\* "c14n{k}" -> k and "b{v}" -> v
_compressLabelMap(labelMap) ==
    JsMap([i \in 1..Len(labelMap.v) |->
        <<JsNum(ParseDec(SubSeq(labelMap.v[i][1].v, Len(Str_c14n) + 1,
                                Len(labelMap.v[i][1].v)))),
          JsNum(ParseDec(SubSeq(labelMap.v[i][2].v, Len(Str_b) + 1,
                                Len(labelMap.v[i][2].v))))>>])

\* 'u' + base64url(tag + CBOR of the 5-element array)
MultibasePayload(item) ==
    JsStr(Str_u \o Base64urlEncode(CBOR_PREFIX_DERIVED \o CborEncode(item)))

serializeDisclosureProofValue(e) ==
    MultibasePayload(JsArr(<<e.bbsProof, _compressLabelMap(e.labelMap),
                             e.mandatoryIndexes, e.selectiveIndexes,
                             e.presentationHeader>>))

-----------------------------------------------------------------------------
(* The credential lifecycle: generate-cid, sign-credential, derive-proof,  *)
(* verify-credential (index.js and cid.js).  The signers and verifiers are *)
(* external; they are modelled as ideal: a signature or a proof verifies   *)
(* exactly when the signer produced it for that key and those messages,    *)
(* which `oracle` records.                                                 *)

Controllers == {"http://example.org/alice", "http://example.org/bob"}

\* a property that is not present
Absent == "undefined"

\* `${controller}#key-${n}`
KeyId(controller, n) == [url |-> controller, frag |-> <<"key-", n>>]
NoKeyId == [url |-> Absent, frag |-> <<>>]

\* sanitizeUrl on the id of a key, `${controller}#key-${n}`, of a controller
\* whose id is an absolute URL in serialized form: the controller's id
SanitizedKeyId(url) == url.url

Str_zUC7 == <<122, 85, 67, 55>>
Str_z6Mk == <<122, 54, 77, 107>>
Str_z488 == <<122, 52, 56, 56>>
Str_zrv == <<122, 114, 118>>

\* String.prototype.startsWith
startsWith(s, prefix) ==
    Len(s) >= Len(prefix) /\ SubSeq(s, 1, Len(prefix)) = prefix

\* the random part of a freshly generated key pair: distinct for every pair
KeyEntropy(controller) ==
    IF controller = "http://example.org/alice" THEN 65 ELSE 66

\* Ed25519VerificationKey2020.generate
Ed25519Generate(controller) ==
    [publicKeyMultibase |-> Str_z6Mk \o <<KeyEntropy(controller)>>,
     privateKeyMultibase |-> Str_zrv \o <<KeyEntropy(controller)>>]

\* Bls12381Multikey.generateBbsKeyPair
generateBbsKeyPair(controller) ==
    [publicKeyMultibase |-> Str_zUC7 \o <<KeyEntropy(controller)>>,
     secretKeyMultibase |-> Str_z488 \o <<KeyEntropy(controller)>>]

\* the key pair a multibase key (public or secret) belongs to
KeyPairOf(multibase) ==
    [bbs |-> startsWith(multibase, Str_zUC7) \/ startsWith(multibase, Str_z488),
     entropy |-> multibase[Len(multibase)]]

NoCid ==
    [id |-> Absent, verificationMethod |-> <<>>, authentication |-> <<>>,
     assertionMethod |-> <<>>, capabilityInvocation |-> <<>>,
     capabilityDelegation |-> <<>>]

\* cid.js lines 73, 96 read before the counter moves: the id `${controller}#key-${i++}`
\* handed to the key generator, numbered from 0
generateCIDFromZero(controller, includeEd25519, includeBBS) ==
    LET i1 == 0
        i2 == IF includeEd25519 THEN 1 ELSE 0
        ed == [id |-> KeyId(controller, i1), type |-> "Multikey",
               controller |-> controller,
               publicKeyMultibase |-> Ed25519Generate(controller).publicKeyMultibase]
        bbs == [id |-> KeyId(controller, i2), type |-> "Multikey",
                controller |-> controller,
                publicKeyMultibase |-> generateBbsKeyPair(controller).publicKeyMultibase]
        vms == (IF includeEd25519 THEN <<ed>> ELSE <<>>)
               \o (IF includeBBS THEN <<bbs>> ELSE <<>>)
        ids == [k \in 1..Len(vms) |-> vms[k].id]
    IN [cid |-> [id |-> controller, verificationMethod |-> vms,
                 authentication |-> ids, assertionMethod |-> ids,
                 capabilityInvocation |-> ids, capabilityDelegation |-> ids],
        privateKeys |->
            (IF includeEd25519
             THEN <<[id |-> ed.id,
                     secret |-> Ed25519Generate(controller).privateKeyMultibase]>>
             ELSE <<>>)
            \o (IF includeBBS
                THEN <<[id |-> bbs.id,
                        secret |-> generateBbsKeyPair(controller).secretKeyMultibase]>>
                ELSE <<>>)]

\* cid.js generateCID: the single-message key first, then the multi-message
\* key, the ids numbered from 1 in that order
generateCID(controller, includeEd25519, includeBBS) ==
    LET i1 == IF includeEd25519 THEN 1 ELSE 0
        i2 == IF includeBBS THEN i1 + 1 ELSE i1
        ed == [id |-> KeyId(controller, i1), type |-> "Multikey",
               controller |-> controller,
               publicKeyMultibase |-> Ed25519Generate(controller).publicKeyMultibase]
        bbs == [id |-> KeyId(controller, i2), type |-> "Multikey",
                controller |-> controller,
                publicKeyMultibase |-> generateBbsKeyPair(controller).publicKeyMultibase]
        vms == (IF includeEd25519 THEN <<ed>> ELSE <<>>)
               \o (IF includeBBS THEN <<bbs>> ELSE <<>>)
        ids == [k \in 1..Len(vms) |-> vms[k].id]
    IN [cid |-> [id |-> controller, verificationMethod |-> vms,
                 authentication |-> ids, assertionMethod |-> ids,
                 capabilityInvocation |-> ids, capabilityDelegation |-> ids],
        privateKeys |->
            (IF includeEd25519
             THEN <<[id |-> ed.id,
                     secret |-> Ed25519Generate(controller).privateKeyMultibase]>>
             ELSE <<>>)
            \o (IF includeBBS
                THEN <<[id |-> bbs.id,
                        secret |-> generateBbsKeyPair(controller).secretKeyMultibase]>>
                ELSE <<>>)]

\* index.js generateCIDDocument: both families unless switched off
generateCIDDocument(controller, options) ==
    generateCID(controller, options.includeEd25519 # "false",
                options.includeBBS # "false")

\* Array.prototype.find on id: the first match, or none
FindById(items, id) ==
    LET hits == {k \in 1..Len(items) : items[k].id = id}
    IN IF hits = {} THEN [found |-> FALSE, at |-> 0]
       ELSE [found |-> TRUE, at |-> CHOOSE k \in hits : \A j \in hits : k <= j]

-----------------------------------------------------------------------------
(* Credentials.  A credential is its id, its claims by JSON pointer and    *)
(* its proof.                                                              *)

\* the pointers of the claims, in the order canonicalization emits them
Pointers == <<"/claim", "/credentialSubject/id", "/issuer", "/issuer/name",
              "/name", "/validFrom", "/validUntil">>
PointerSet == {Pointers[k] : k \in 1..Len(Pointers)}

\* a JSON pointer as text
PointerText(p) ==
    CASE p = "/claim" -> <<47, 99, 108, 97, 105, 109>>
      [] p = "/credentialSubject/id" ->
            <<47, 99, 114, 101, 100, 101, 110, 116, 105, 97, 108, 83, 117, 98,
              106, 101, 99, 116, 47, 105, 100>>
      [] p = "/issuer" -> <<47, 105, 115, 115, 117, 101, 114>>
      [] p = "/issuer/name" ->
            <<47, 105, 115, 115, 117, 101, 114, 47, 110, 97, 109, 101>>
      [] p = "/name" -> <<47, 110, 97, 109, 101>>
      [] p = "/validFrom" -> <<47, 118, 97, 108, 105, 100, 70, 114, 111, 109>>
      [] p = "/validUntil" -> <<47, 118, 97, 108, 105, 100, 85, 110, 116, 105, 108>>
      [] OTHER -> <<47, 63>>

\* the pointers an array of pointer texts names ("?" for a text that names
\* no claim of the model)
PointersOfTexts(arr) ==
    {IF \E p \in PointerSet : PointerText(p) = arr[k].v
     THEN CHOOSE p \in PointerSet : PointerText(p) = arr[k].v
     ELSE "?" : k \in 1..Len(arr)}

NoProof ==
    [type |-> Absent, cryptosuite |-> Absent, verificationMethod |-> NoKeyId,
     created |-> Absent, proofPurpose |-> Absent, proofValue |-> JsUndef]

\* a document with nothing in it
NoDocument == [id |-> Absent, claims |-> [p \in PointerSet |-> Absent],
               proof |-> NoProof]

\* new Date().toISOString()
Now == "2025-01-01T00:00:00.000Z"

\* the proof without its proofValue
ProofConfig(proof) ==
    [type |-> proof.type, cryptosuite |-> proof.cryptosuite,
     verificationMethod |-> proof.verificationMethod,
     created |-> proof.created, proofPurpose |-> proof.proofPurpose]

Str_c14n0 == Str_c14n \o <<48>>
Str_b0 == Str_b \o <<48>>

\* the labels canonicalization itself gives to blank nodes
C14nLabelMap == JsMap(<<<<JsStr(Str_c14n0), JsStr(Str_c14n0)>>>>)
\* the labels the signer's HMAC gives to blank nodes
HmacLabelMap == JsMap(<<<<JsStr(Str_c14n0), JsStr(Str_b0)>>>>)

\* labelMap.get(label): the last entry set for the key, undefined if none
LabelMapGet(labelMap, label) ==
    LET hits == {k \in 1..Len(labelMap.v) : labelMap.v[k][1] = JsStr(label)}
    IN IF hits = {} THEN Str_undefined
       ELSE JsToString(labelMap.v[CHOOSE k \in hits : \A j \in hits : j <= k][2])

\* canonicalization with label replacement: one statement per claim, about
\* the credential, which is a blank node unless it has an id
labelReplacementCanonicalizeJsonLd(doc, labelMap) ==
    LET subject == IF doc.id # Absent THEN [iri |-> doc.id, label |-> <<>>]
                   ELSE [iri |-> Absent, label |-> LabelMapGet(labelMap, Str_c14n0)]
        present == SelectSeq(Pointers, LAMBDA p : doc.claims[p] # Absent)
    IN [k \in 1..Len(present) |->
          [s |-> subject, p |-> present[k], o |-> doc.claims[present[k]]]]

\* the text canonizeProof gives for the proof options, and the text the
\* canonical statements of a document are joined into
canonizeProof(proof) == [proofOptions |-> ProofConfig(proof)]
canonize(nquads) == [nquads |-> nquads]

\* SHA-256 of a text, collision free: DigestLen bytes, each one determined by
\* the text and by its position in the digest
sha256digest(string) == [k \in 1..DigestLen |-> [sha256 |-> string, at |-> k]]

\* a concatenation that puts the second array first
ConcatSwapped(b1, b2) ==
    [k \in 1..(Len(b1) + Len(b2)) |->
        IF k <= Len(b2) THEN b2[k] ELSE b1[k - Len(b2)]]

\* index.js concat: b1 copied at offset 0 and b2 at offset b1.length of a new
\* array of both lengths
concat(b1, b2) ==
    [k \in 1..(Len(b1) + Len(b2)) |->
        IF k <= Len(b1) THEN b1[k] ELSE b2[k - Len(b1)]]

\* 0-based positions of the statements of `nquads` about the given pointers
IndexesOf(nquads, pointers) ==
    LET hits == SelectSeq([k \in 1..Len(nquads) |-> k],
                          LAMBDA k : nquads[k].p \in pointers)
    IN [j \in 1..Len(hits) |-> hits[j] - 1]

-----------------------------------------------------------------------------
(* The external signers and verifiers, ideal.                              *)

CBOR_PREFIX_BASE == <<217, 93, 2>>

\* how a call ends: it returns a value or throws an error
Returns(value) == [kind |-> "return", value |-> value, error |-> <<"", "">>]
Throws(name, message) == [kind |-> "throw", value |-> FALSE,
                          error |-> <<name, message>>]

OracleEntry(kind, key, header, body) ==
    [kind |-> kind, key |-> key, header |-> header, body |-> body]

\* the bytes of the k-th signature or proof produced
Handle(k) == <<k>>

\* the entry a signature or proof value stands for, 0 if none
Lookup(orc, bytes) ==
    IF Len(bytes) = 1 /\ bytes[1] \in 1..Len(orc) THEN bytes[1] ELSE 0

\* jsigs.sign with the bbs-2023 sign cryptosuite: a base proof over the
\* mandatory statements (hashed into the header) and the other statements
BbsSign(doc, vm, secret, mandatoryPointers, orc) ==
    LET config == [type |-> "DataIntegrityProof", cryptosuite |-> "bbs-2023",
                   verificationMethod |-> vm.id, created |-> Now,
                   proofPurpose |-> "assertionMethod"]
        nquads == labelReplacementCanonicalizeJsonLd(doc, HmacLabelMap)
        mandatory == SelectSeq(nquads, LAMBDA q : q.p \in mandatoryPointers)
        nonMandatory == SelectSeq(nquads, LAMBDA q : q.p \notin mandatoryPointers)
        header == concat(sha256digest([proofOptions |-> config]),
                         sha256digest(canonize(mandatory)))
        handle == Handle(Len(orc) + 1)
        pointerTexts == SelectSeq([k \in 1..Len(Pointers) |->
                                      JsStr(PointerText(Pointers[k]))],
                                  LAMBDA t : \E p \in mandatoryPointers :
                                      PointerText(p) = t.v)
        baseProofValue ==
            JsStr(Str_u \o Base64urlEncode(CBOR_PREFIX_BASE \o CborEncode(
                JsArr(<<JsBytes(handle), JsBytes(handle),
                        JsBytes(<<KeyPairOf(vm.publicKeyMultibase).entropy>>),
                        JsBytes(<<0>>), JsArr(pointerTexts)>>))))
    IN [signedVC |-> [doc EXCEPT !.proof =
                        [type |-> config.type, cryptosuite |-> config.cryptosuite,
                         verificationMethod |-> config.verificationMethod,
                         created |-> config.created,
                         proofPurpose |-> config.proofPurpose,
                         proofValue |-> baseProofValue]],
        oracle |-> Append(orc, OracleEntry("bbsSignature", KeyPairOf(secret),
                                           header, nonMandatory))]

\* the signature as multibase base58 text and back
SignatureText(bytes) == <<122>> \o DecString(bytes[1])
SignatureBytes(text) ==
    IF Len(text) >= 2 /\ text[1] = 122
       /\ \A k \in 2..Len(text) : text[k] \in 48..57
    THEN <<ParseDec(Tail(text))>>
    ELSE <<>>

\* vc.issue with Ed25519Signature2020: a signature over the hash of the proof
\* options followed by the hash of the canonized credential
Ed25519Sign(doc, vm, secret, orc) ==
    LET config == [type |-> "Ed25519Signature2020", cryptosuite |-> Absent,
                   verificationMethod |-> vm.id, created |-> Now,
                   proofPurpose |-> "assertionMethod"]
        verifyData ==
            concat(sha256digest([proofOptions |-> config]),
                   sha256digest(canonize(
                       labelReplacementCanonicalizeJsonLd(doc, C14nLabelMap))))
        handle == Handle(Len(orc) + 1)
    IN [signedVC |-> [doc EXCEPT !.proof =
                        [type |-> config.type, cryptosuite |-> config.cryptosuite,
                         verificationMethod |-> config.verificationMethod,
                         created |-> config.created,
                         proofPurpose |-> config.proofPurpose,
                         proofValue |-> JsStr(SignatureText(handle))]],
        oracle |-> Append(orc, OracleEntry("ed25519", KeyPairOf(secret),
                                           <<>>, verifyData))]

\* the base proof value decoded: tag d9 5d 02 and a five-element array
parseBaseProofValue(proof) ==
    LET bad == [ok |-> FALSE, bbsSignature |-> <<>>, publicKey |-> <<>>,
                mandatoryPointers |-> {}]
    IN IF proof.proofValue.t # "string" THEN bad
       ELSE IF NotBase64urlMultibase(proof.proofValue.v) THEN bad
       ELSE
         LET dec == Base64urlDecode(Tail(proof.proofValue.v), FALSE)
         IN IF ~dec.ok \/ ~_startsWithBytes(dec.bytes, CBOR_PREFIX_BASE) THEN bad
            ELSE
              LET d == CborDecode(SubSeq(dec.bytes, Len(CBOR_PREFIX_BASE) + 1,
                                         Len(dec.bytes)))
              IN IF ~d.ok THEN bad
                 ELSE IF d.val.t # "array" \/ Len(d.val.v) # 5 THEN bad
                 ELSE IF d.val.v[1].t # "uint8array" \/ d.val.v[3].t # "uint8array"
                         \/ d.val.v[5].t # "array" THEN bad
                 ELSE [ok |-> TRUE, bbsSignature |-> d.val.v[1].v,
                       publicKey |-> d.val.v[3].v,
                       mandatoryPointers |-> PointersOfTexts(d.val.v[5].v)]

\* a derivation that leaves every claim of the credential in
DeriveFromBaseRevealingAll(base, doc, selectivePointers, orc) ==
    LET at == Lookup(orc, base.bbsSignature)
    IN IF ~base.ok \/ at = 0
       THEN [outcome |-> Throws("Error", "proofValue must be a base proof"),
             derived |-> doc, oracle |-> orc]
       ELSE [outcome |-> Returns(TRUE), derived |-> doc,
             oracle |-> Append(orc, orc[at])]

\* the derivation once the base proof is decoded
DeriveFromBase(base, doc, selectivePointers, orc) ==
    LET at == Lookup(orc, base.bbsSignature)
        combined == base.mandatoryPointers \cup selectivePointers
    IN IF ~base.ok
       THEN [outcome |-> Throws("Error", "proofValue must be a base proof"),
             derived |-> doc, oracle |-> orc]
       ELSE IF \E p \in combined : p \notin PointerSet \/ doc.claims[p] = Absent
       THEN [outcome |-> Throws("Error", "JSON pointer does not match document"),
             derived |-> doc, oracle |-> orc]
       ELSE IF at = 0 \/ orc[at].kind # "bbsSignature"
       THEN [outcome |-> Throws("Error", "invalid signature"), derived |-> doc,
             oracle |-> orc]
       ELSE
         LET revealDoc == [id |-> doc.id,
                           claims |-> [p \in PointerSet |->
                               IF p \in combined THEN doc.claims[p] ELSE Absent],
                           proof |-> NoProof]
             all == labelReplacementCanonicalizeJsonLd(doc, HmacLabelMap)
             nonMandatory == SelectSeq(all, LAMBDA q :
                                 q.p \notin base.mandatoryPointers)
             revealed == labelReplacementCanonicalizeJsonLd(revealDoc, HmacLabelMap)
             mandatoryIndexes == IndexesOf(revealed, base.mandatoryPointers)
             selectiveIndexes == IndexesOf(nonMandatory, selectivePointers)
             disclosed == SelectSeq(nonMandatory, LAMBDA q :
                              q.p \in selectivePointers)
             labelMap == IF doc.id # Absent THEN JsMap(<<>>) ELSE HmacLabelMap
             handle == Handle(Len(orc) + 1)
             envelope ==
                 [bbsProof |-> JsBytes(handle), labelMap |-> labelMap,
                  mandatoryIndexes |->
                      JsArr([k \in 1..Len(mandatoryIndexes) |->
                                JsNum(mandatoryIndexes[k])]),
                  selectiveIndexes |->
                      JsArr([k \in 1..Len(selectiveIndexes) |->
                                JsNum(selectiveIndexes[k])]),
                  presentationHeader |-> JsBytes(<<>>)]
         IN [outcome |-> Returns(TRUE),
             derived |-> [revealDoc EXCEPT !.proof =
                            [doc.proof EXCEPT !.proofValue =
                                serializeDisclosureProofValue(envelope)]],
             oracle |-> Append(orc,
                 OracleEntry("bbsProof", orc[at].key, orc[at].header,
                     [indexes |-> selectiveIndexes, messages |-> disclosed,
                      presentationHeader |-> <<>>]))]

\* a derivation that hands back a credential that has no proof
BbsDeriveUnproven(doc, selectivePointers, orc) ==
    IF doc.proof = NoProof
    THEN [outcome |-> Returns(TRUE), derived |-> doc, oracle |-> orc]
    ELSE IF doc.proof.type # "DataIntegrityProof" \/ doc.proof.cryptosuite # "bbs-2023"
    THEN [outcome |-> Throws("Error", "no matching base proof"), derived |-> doc,
          oracle |-> orc]
    ELSE DeriveFromBase(parseBaseProofValue(doc.proof), doc, selectivePointers, orc)

\* jsigs.derive with the bbs-2023 disclose cryptosuite: the credential cut
\* down to the mandatory and the selected claims, with a proof of the
\* signature that discloses the selected statements
BbsDerive(doc, selectivePointers, orc) ==
    IF doc.proof = NoProof
    THEN [outcome |-> Throws("Error", "no proof"), derived |-> doc, oracle |-> orc]
    ELSE IF doc.proof.type # "DataIntegrityProof" \/ doc.proof.cryptosuite # "bbs-2023"
    THEN [outcome |-> Throws("Error", "no matching base proof"), derived |-> doc,
          oracle |-> orc]
    ELSE DeriveFromBase(parseBaseProofValue(doc.proof), doc, selectivePointers, orc)

-----------------------------------------------------------------------------
(* lib/verify.js                                                           *)

VerifyDataThrows(name, message) ==
    [ok |-> FALSE, name |-> name, message |-> message, bbsProof |-> JsUndef,
     proofHash |-> sha256digest(canonize(<<>>)), nonMandatory |-> <<>>,
     mandatoryHash |-> sha256digest(canonize(<<>>)), selectiveIndexes |-> JsUndef,
     presentationHeader |-> JsUndef, mandatory |-> <<>>]

\* mandatoryIndexes.includes(index)
Includes(arr, index) ==
    \E k \in 1..Len(arr.v) : SameValueZero(arr.v[k], JsNum(index))

\* the statements split on a test other than membership of mandatoryIndexes
PartitionBySelective(nquads, params) ==
    LET at == [k \in 1..Len(nquads) |-> k]
        In(k) == Includes(params.selectiveIndexes, k - 1)
        m == SelectSeq(at, In)
        n == SelectSeq(at, LAMBDA k : ~In(k))
    IN [mandatory |-> [j \in 1..Len(m) |-> nquads[m[j]]],
        nonMandatory |-> [j \in 1..Len(n) |-> nquads[n[j]]]]

\* the statements whose 0-based position is in mandatoryIndexes, and the rest,
\* each in canonical order
PartitionByMandatory(nquads, params) ==
    LET at == [k \in 1..Len(nquads) |-> k]
        In(k) == Includes(params.mandatoryIndexes, k - 1)
        m == SelectSeq(at, In)
        n == SelectSeq(at, LAMBDA k : ~In(k))
    IN [mandatory |-> [j \in 1..Len(m) |-> nquads[m[j]]],
        nonMandatory |-> [j \in 1..Len(n) |-> nquads[n[j]]]]

\* the bundle _createVerifyData returns, or the error the parser raised
VerifyDataOf(doc, proofHash, parsed) ==
    IF ~parsed.ok THEN VerifyDataThrows(parsed.name, parsed.message)
    ELSE
      LET nquads == labelReplacementCanonicalizeJsonLd(doc, parsed.params.labelMap)
          parts == PartitionByMandatory(nquads, parsed.params)
      IN [ok |-> TRUE, name |-> "", message |-> "",
          bbsProof |-> parsed.params.bbsProof,
          proofHash |-> proofHash,
          nonMandatory |-> parts.nonMandatory,
          mandatoryHash |-> sha256digest(canonize(parts.mandatory)),
          selectiveIndexes |-> parsed.params.selectiveIndexes,
          presentationHeader |-> parsed.params.presentationHeader,
          mandatory |-> parts.mandatory]

\* the proof taken off the caller's own object: document.proof = null
TakeProofInPlace(doc) ==
    [caller |-> [doc EXCEPT !.proof = NoProof], proof |-> doc.proof,
     document |-> [doc EXCEPT !.proof = NoProof]]

\* lines 15-19: proof = document.proof; document = {...document, proof: null}.
\* The parameter is bound to a copy without the proof; the caller's object
\* is not written to
TakeProof(doc) ==
    [caller |-> doc, proof |-> doc.proof,
     document |-> [doc EXCEPT !.proof = NoProof]]

\* _createVerifyData({document, documentLoader})
_createVerifyData(doc, lenient) ==
    VerifyDataOf(TakeProof(doc).document,
                 sha256digest(canonizeProof(TakeProof(doc).proof)),
                 parseDisclosureProofValue(
                     [proofValue |-> TakeProof(doc).proof.proofValue], lenient))

-----------------------------------------------------------------------------
(* _createVerifyData step by step.  The body of the async function runs    *)
(* from one await to the next, while the proof hash that line 22 started   *)
(* is computed on its own and settles at any time.                         *)

\* an Error instance, as a JavaScript value
JsError(name, message) == [t |-> "error", v |-> <<name, message>>]

\* a promise
Pending == [state |-> "pending", value |-> JsUndef]
Fulfilled(value) == [state |-> "fulfilled", value |-> value]
Rejected(reason) == [state |-> "rejected", value |-> reason]

\* hashCanonizedProof({document, proof, options}): the digest of the canonized
\* proof options, or a rejection with whatever the computation threw
hashCanonizedProof(proof, how) ==
    CASE how = "resolves" -> Fulfilled(JsBytes(sha256digest(canonizeProof(proof))))
      [] how = "rejectsWithError" ->
            Rejected(JsError("jsonld.InvalidUrl", "loading remote context failed"))
      [] OTHER -> Rejected(JsStr(<<111, 102, 102, 108, 105, 110, 101>>))

\* proofHashPromise without `.catch(e => e)`: a rejection stays a rejection
WithoutCatch(promise) == promise

\* promise.catch(e => e): a promise fulfilled with the value or with the
\* rejection reason
CatchIdentity(promise) ==
    IF promise.state = "rejected" THEN Fulfilled(promise.value) ELSE promise

\* value instanceof Error
InstanceofError(value) == value.t = "error"

NoBundle ==
    [bbsProof |-> JsUndef, proofHash |-> JsUndef, nonMandatory |-> <<>>,
     mandatoryHash |-> <<>>, selectiveIndexes |-> JsUndef,
     presentationHeader |-> JsUndef, mandatory |-> <<>>]

NoLocals ==
    [proof |-> NoProof, document |-> NoDocument,
     params |-> NoParams, nquads |-> <<>>, mandatory |-> <<>>,
     nonMandatory |-> <<>>, mandatoryHash |-> <<>>]

NotEnded == [kind |-> "none", bundle |-> NoBundle, thrown |-> JsUndef]

\* a step that fails before the join and finds the hash already failed
\* reports the failure of the hash
RejectsRacing(error, hashPromise) ==
    IF hashPromise.state = "fulfilled" /\ InstanceofError(hashPromise.value)
    THEN [kind |-> "throw", bundle |-> NoBundle, thrown |-> hashPromise.value]
    ELSE [kind |-> "throw", bundle |-> NoBundle, thrown |-> error]

\* an error thrown in the body rejects the call with that error;
\* proofHashPromise, settled or not, is not looked at before line 50
Rejects(error, hashPromise) ==
    [kind |-> "throw", bundle |-> NoBundle, thrown |-> error]

\* lines 50-57: the awaited proofHash is thrown if it is an Error, and is
\* returned in the bundle otherwise
Join(proofHash, local) ==
    IF InstanceofError(proofHash)
    THEN [kind |-> "throw", bundle |-> NoBundle, thrown |-> proofHash]
    ELSE [kind |-> "return", thrown |-> JsUndef,
          bundle |-> [bbsProof |-> local.params.bbsProof, proofHash |-> proofHash,
                      nonMandatory |-> local.nonMandatory,
                      mandatoryHash |-> local.mandatoryHash,
                      selectiveIndexes |-> local.params.selectiveIndexes,
                      presentationHeader |-> local.params.presentationHeader,
                      mandatory |-> local.mandatory]]

\* how the computations of a call end when nothing fails
AllSucceed == [proofHash |-> "resolves", canonize |-> "resolves",
               hashMandatory |-> "resolves"]

\* no call of _createVerifyData is in progress
VerifyIdle ==
    /\ vpc = "idle"
    /\ vDoc = NoDocument
    /\ vEnv = AllSucceed
    /\ vPromise = Pending
    /\ vLocal = NoLocals
    /\ vOut = NotEnded

-----------------------------------------------------------------------------
(* The external verifiers.                                                 *)

\* AssertionProofPurpose: the method is among the controller's assertion methods
AssertionMethodOf(cid, vmId) ==
    \E k \in 1..Len(cid.assertionMethod) : cid.assertionMethod[k] = vmId

Verified == [verified |-> TRUE, error |-> ""]
NotVerified(why) == [verified |-> FALSE, error |-> why]

\* bbs.verifyProof on the verify data, then the proof purpose
VerifyDerivedProof(verifyData, cid, vm, orc) ==
    LET at == Lookup(orc, verifyData.bbsProof.v)
    IN IF ~verifyData.ok THEN NotVerified(verifyData.message)
       ELSE IF at = 0 THEN NotVerified("invalid proof")
       ELSE IF orc[at].kind # "bbsProof" THEN NotVerified("invalid proof")
       ELSE IF orc[at].key # KeyPairOf(vm.publicKeyMultibase)
               \/ orc[at].header # concat(verifyData.proofHash,
                                          verifyData.mandatoryHash)
               \/ orc[at].body #
                    [indexes |-> [k \in 1..Len(verifyData.selectiveIndexes.v) |->
                                     verifyData.selectiveIndexes.v[k].v],
                     messages |-> verifyData.nonMandatory,
                     presentationHeader |-> verifyData.presentationHeader.v]
       THEN NotVerified("invalid proof")
       ELSE IF ~AssertionMethodOf(cid, vm.id)
       THEN NotVerified("not an assertion method")
       ELSE Verified

\* jsigs.verify with the bbs-2023 verify cryptosuite; every error raised on
\* the way is caught and reported in the result, verified being false
BbsVerify(doc, cid, vm, lenient, orc) ==
    IF doc.proof.type # "DataIntegrityProof" \/ doc.proof.cryptosuite # "bbs-2023"
    THEN NotVerified("no matching proofs")
    ELSE IF SanitizedKeyId(doc.proof.verificationMethod) # cid.id
    THEN NotVerified("verification method not loaded")
    ELSE VerifyDerivedProof(_createVerifyData(doc, lenient), cid, vm, orc)

\* vc.verifyCredential with Ed25519Signature2020 (the purpose is credential
\* issuance: the issuer is the controller the loader resolves); every error
\* is caught and reported in the result, verified being false
Ed25519Verify(doc, cid, vm, orc) ==
    IF doc.proof.type # "Ed25519Signature2020"
    THEN NotVerified("no matching proofs")
    ELSE IF doc.proof.proofValue.t # "string"
    THEN NotVerified("invalid signature")
    ELSE
      LET at == Lookup(orc, SignatureBytes(doc.proof.proofValue.v))
      IN IF at = 0 THEN NotVerified("invalid signature")
         ELSE IF orc[at].kind # "ed25519" THEN NotVerified("invalid signature")
         ELSE IF orc[at].key # KeyPairOf(vm.publicKeyMultibase)
                 \/ orc[at].body #
                      concat(sha256digest(canonizeProof(doc.proof)),
                             sha256digest(canonize(
                                 labelReplacementCanonicalizeJsonLd(
                                     [doc EXCEPT !.proof = NoProof],
                                     C14nLabelMap))))
         THEN NotVerified("invalid signature")
         ELSE IF doc.claims["/issuer"] # cid.id
                 \/ ~AssertionMethodOf(cid, vm.id)
         THEN NotVerified("not an assertion method of the issuer")
         ELSE Verified

-----------------------------------------------------------------------------
(* index.js: the API.                                                      *)

NoVerificationMethod ==
    [id |-> NoKeyId, type |-> Absent, controller |-> Absent,
     publicKeyMultibase |-> <<>>]

\* a lookup that falls back to the first method of the document
GetVerificationMethodOrFirst(cid, doc) ==
    LET hit == FindById(cid.verificationMethod, doc.proof.verificationMethod)
    IN IF ~hit.found /\ Len(cid.verificationMethod) = 0
       THEN [outcome |-> Throws("Error", "Verification method not found in CID document"),
             verificationMethod |-> NoVerificationMethod]
       ELSE IF ~hit.found
       THEN [outcome |-> Returns(TRUE),
             verificationMethod |-> cid.verificationMethod[1]]
       ELSE [outcome |-> Returns(TRUE),
             verificationMethod |-> cid.verificationMethod[hit.at]]

\* getVerificationMethod(cid, document)
getVerificationMethod(cid, doc) ==
    LET hit == FindById(cid.verificationMethod, doc.proof.verificationMethod)
    IN IF ~hit.found
       THEN [outcome |-> Throws("Error", "Verification method not found in CID document"),
             verificationMethod |-> NoVerificationMethod]
       ELSE [outcome |-> Returns(TRUE),
             verificationMethod |-> cid.verificationMethod[hit.at]]

\* a choice of suite at verification that looks for the single-message prefix
VerifySuiteByEd25519Prefix(verificationMethod) ==
    IF startsWith(verificationMethod.publicKeyMultibase, Str_z6Mk)
    THEN "SingleMessage" ELSE "MultiMessage"

\* the suite signCredential picks for a verification method (line 150)
signSuite(verificationMethod) ==
    IF startsWith(verificationMethod.publicKeyMultibase, Str_zUC7)
    THEN "MultiMessage" ELSE "SingleMessage"

\* the suite verifyCredential picks for a verification method (line 222)
verifySuite(verificationMethod) ==
    IF startsWith(verificationMethod.publicKeyMultibase, Str_zUC7)
    THEN "MultiMessage" ELSE "SingleMessage"

\* no verification method is being classified
ClassifyIdle ==
    /\ kKey = <<>>
    /\ kSign = "none"
    /\ kVerify = "none"

\* if (value): undefined and the empty string are falsy
Truthy(value) == value # Absent /\ value # ""

\* the mandatory pointers signCredential hands to the multi-message signer
\* (lines 159-165)
entryPointers(doc) ==
    <<"/issuer">>
    \o (IF Truthy(doc.claims["/validFrom"]) THEN <<"/validFrom">> ELSE <<>>)
    \o (IF Truthy(doc.claims["/validUntil"]) THEN <<"/validUntil">> ELSE <<>>)

\* the elements of an array
ElementsOf(arr) == {arr[k] : k \in 1..Len(arr)}

\* what signCredential returns when the signer has signed
SignedWith(stamped, signed, mandatoryPointers) ==
    [outcome |-> Returns(TRUE), document |-> stamped,
     signedVC |-> signed.signedVC, oracle |-> signed.oracle,
     mandatoryPointers |-> mandatoryPointers]

\* lines 121-134 with the subject id set only when the credential has none
StampKeepingSubject(doc, cid, credentialId, subjectId) ==
    [doc EXCEPT
       !.claims["/issuer"] = cid.id,
       !.claims["/issuer/name"] = Absent,
       !.id = IF Truthy(credentialId) THEN credentialId ELSE @,
       !.claims["/credentialSubject/id"] =
           IF Truthy(subjectId) /\ @ = Absent THEN subjectId ELSE @]

\* lines 121-134: the issuer is replaced by {id: cid.id}; the credential id
\* and the subject id are set when the option is given
Stamp(doc, cid, credentialId, subjectId) ==
    [doc EXCEPT
       !.claims["/issuer"] = cid.id,
       !.claims["/issuer/name"] = Absent,
       !.id = IF Truthy(credentialId) THEN credentialId ELSE @,
       !.claims["/credentialSubject/id"] =
           IF Truthy(subjectId) THEN subjectId ELSE @]

\* a lookup of the secret key that reports its miss before the method's
ResolveSecretFirst(vmAt, keyAt) ==
    IF ~keyAt.found THEN Throws("Error", "Private key not found")
    ELSE IF ~vmAt.found THEN Throws("Error", "Key ID not found in CID document")
    ELSE Returns(TRUE)

\* lines 136-144: the verification method, then the secret key
Resolve(vmAt, keyAt) ==
    IF ~vmAt.found THEN Throws("Error", "Key ID not found in CID document")
    ELSE IF ~keyAt.found THEN Throws("Error", "Private key not found")
    ELSE Returns(TRUE)

\* signCredential once the document is stamped and the key looked up
SignStamped(resolved, stamped, verificationMethod, privateKey, orc) ==
    IF resolved.kind = "throw"
    THEN [outcome |-> resolved, document |-> stamped, signedVC |-> stamped,
          oracle |-> orc, mandatoryPointers |-> <<>>]
    ELSE IF signSuite(verificationMethod) = "MultiMessage"
    THEN SignedWith(stamped,
                    BbsSign(stamped, verificationMethod, privateKey,
                            ElementsOf(entryPointers(stamped)), orc),
                    entryPointers(stamped))
    ELSE SignedWith(stamped,
                    Ed25519Sign(stamped, verificationMethod, privateKey, orc),
                    <<>>)

\* a signCredential that looks the key up before it writes to the document:
\* a failed lookup leaves the caller's document untouched
signAfterLookup(cid, privateKeys, doc, keyId, credentialId, subjectId, orc) ==
    LET vmAt == FindById(cid.verificationMethod, keyId)
        keyAt == FindById(privateKeys, keyId)
    IN IF Resolve(vmAt, keyAt).kind = "throw"
       THEN [outcome |-> Resolve(vmAt, keyAt), document |-> doc,
             signedVC |-> doc, oracle |-> orc, mandatoryPointers |-> <<>>]
       ELSE SignStamped(Resolve(vmAt, keyAt),
                        Stamp(doc, cid, credentialId, subjectId),
                        cid.verificationMethod[vmAt.at],
                        privateKeys[keyAt.at].secret, orc)

\* signCredential(options); `document` is the caller's object as the call
\* leaves it
signCredential(cid, privateKeys, doc, keyId, credentialId, subjectId, orc) ==
    LET vmAt == FindById(cid.verificationMethod, keyId)
        keyAt == FindById(privateKeys, keyId)
    IN SignStamped(Resolve(vmAt, keyAt),
                   Stamp(doc, cid, credentialId, subjectId),
                   IF vmAt.found THEN cid.verificationMethod[vmAt.at]
                   ELSE NoVerificationMethod,
                   IF keyAt.found THEN privateKeys[keyAt.at].secret ELSE <<>>,
                   orc)

\* a dispatch that takes the multi-message branch for every other key
DispatchInverted(lookup, cid, doc, lenient, orc) ==
    IF lookup.outcome.kind = "throw" THEN lookup.outcome
    ELSE IF doc.claims["/issuer"] = Absent
    THEN Throws("TypeError", "Cannot read properties of undefined")
    ELSE IF ~startsWith(lookup.verificationMethod.publicKeyMultibase, Str_zUC7)
    THEN Returns(BbsVerify(doc, cid, lookup.verificationMethod, lenient, orc).verified)
    ELSE Returns(Ed25519Verify(doc, cid, lookup.verificationMethod, orc).verified)

\* the verifier's result raised as an error when it is not verified
ResultOrThrow(result) ==
    IF ~result.verified THEN Throws("VerificationError", result.error)
    ELSE Returns(TRUE)

\* a verification that raises the verifier's error instead of returning false
DispatchRethrows(lookup, cid, doc, lenient, orc) ==
    IF lookup.outcome.kind = "throw" THEN lookup.outcome
    ELSE IF doc.claims["/issuer"] = Absent
    THEN Throws("TypeError", "Cannot read properties of undefined")
    ELSE IF startsWith(lookup.verificationMethod.publicKeyMultibase, Str_zUC7)
    THEN ResultOrThrow(BbsVerify(doc, cid, lookup.verificationMethod, lenient, orc))
    ELSE ResultOrThrow(Ed25519Verify(doc, cid, lookup.verificationMethod, orc))

\* verifyCredential once the verification method is looked up: the key's
\* family picks the verifier, and its result.verified is returned
Dispatch(lookup, cid, doc, lenient, orc) ==
    IF lookup.outcome.kind = "throw" THEN lookup.outcome
    ELSE IF doc.claims["/issuer"] = Absent
    THEN Throws("TypeError", "Cannot read properties of undefined")
    ELSE IF verifySuite(lookup.verificationMethod) = "MultiMessage"
    THEN Returns(BbsVerify(doc, cid, lookup.verificationMethod, lenient, orc).verified)
    ELSE Returns(Ed25519Verify(doc, cid, lookup.verificationMethod, orc).verified)

\* verifyCredential(options): reading document.proof.verificationMethod and
\* document.issuer.id raises a TypeError when the property is missing
verifyCredential(cid, doc, lenient, orc) ==
    IF doc.proof = NoProof
    THEN Throws("TypeError", "Cannot read properties of undefined")
    ELSE Dispatch(getVerificationMethod(cid, doc), cid, doc, lenient, orc)

\* verifyCredential gets as far as building the verify data of a derived
\* proof
ReachesVerifyData(cid, doc) ==
    /\ doc.proof # NoProof
    /\ getVerificationMethod(cid, doc).outcome.kind = "return"
    /\ doc.claims["/issuer"] # Absent
    /\ verifySuite(getVerificationMethod(cid, doc).verificationMethod)
          = "MultiMessage"
    /\ doc.proof.type = "DataIntegrityProof"
    /\ doc.proof.cryptosuite = "bbs-2023"
    /\ SanitizedKeyId(doc.proof.verificationMethod) = cid.id

\* the caller's credential object as verifyCredential leaves it: the function
\* assigns to none of its properties, and the verify data is built from the
\* object itself
DocumentAfterVerify(cid, doc) ==
    IF ReachesVerifyData(cid, doc) THEN TakeProof(doc).caller ELSE doc

\* deriveProof(options)
deriveProof(doc, revealPointers, orc) == BbsDerive(doc, revealPointers, orc)

\* Buffer.from(bytes).toString('hex'): two digits for each byte, the high one
\* first
toHex(bytes) ==
    [k \in 1..(2 * Len(bytes)) |->
        [byte |-> bytes[(k + 1) \div 2], digit |-> IF k % 2 = 1 THEN "high" ELSE "low"]]

\* suite.verifySignature({verifyData, proof, verificationMethod}): the
\* signature in the proof was made with the method's key over verifyData
verifySignature(verifyData, proof, verificationMethod, orc) ==
    IF proof.proofValue.t # "string" THEN FALSE
    ELSE
      LET at == Lookup(orc, SignatureBytes(proof.proofValue.v))
      IN /\ at # 0
         /\ orc[at].kind = "ed25519"
         /\ orc[at].key = KeyPairOf(verificationMethod.publicKeyMultibase)
         /\ orc[at].body = verifyData

\* preprocessEd25519Verification has not been called
NotPreprocessed ==
    [called |-> FALSE, outcome |-> Returns(FALSE), proofHash |-> <<>>,
     docHash |-> <<>>, message |-> <<>>,
     verifyData |-> [proofHash |-> <<>>, docHash |-> <<>>, concatHash |-> <<>>]]

\* lines 368-386: the verifier is handed concatHash; the call throws unless
\* it verifies, and returns the digests in hexadecimal
PreprocessedWith(proofHash, docHash, concatHash, verified) ==
    [called |-> TRUE,
     outcome |-> IF verified THEN Returns(TRUE)
                 ELSE Throws("Error", "Signature verification failed"),
     proofHash |-> proofHash, docHash |-> docHash, message |-> concatHash,
     verifyData |-> IF verified
                    THEN [proofHash |-> toHex(proofHash), docHash |-> toHex(docHash),
                          concatHash |-> toHex(concatHash)]
                    ELSE NotPreprocessed.verifyData]

\* lines 364-372: the two digests, their concatenation, and the check of the
\* signature over it
PreprocessHashes(proofHash, docHash, doc, verificationMethod, orc) ==
    PreprocessedWith(proofHash, docHash, concat(proofHash, docHash),
                     verifySignature(concat(proofHash, docHash), doc.proof,
                                     verificationMethod, orc))

\* preprocessEd25519Verification(options)
preprocessEd25519Verification(cid, doc, orc) ==
    IF doc.proof = NoProof
    THEN [NotPreprocessed EXCEPT
            !.called = TRUE,
            !.outcome = Throws("TypeError", "Cannot read properties of undefined")]
    ELSE IF getVerificationMethod(cid, doc).outcome.kind = "throw"
    THEN [NotPreprocessed EXCEPT
            !.called = TRUE,
            !.outcome = getVerificationMethod(cid, doc).outcome]
    ELSE IF doc.claims["/issuer"] = Absent
    THEN [NotPreprocessed EXCEPT
            !.called = TRUE,
            !.outcome = Throws("TypeError", "Cannot read properties of undefined")]
    ELSE PreprocessHashes(
             sha256digest(canonizeProof(doc.proof)),
             sha256digest(canonize(labelReplacementCanonicalizeJsonLd(
                 [doc EXCEPT !.proof = NoProof], C14nLabelMap))),
             doc, getVerificationMethod(cid, doc).verificationMethod, orc)

\* no call of preprocessEd25519Verification has been made
PreprocessIdle == pre = NotPreprocessed


-----------------------------------------------------------------------------
(* The state of the lifecycle before anything has happened.                *)

NoCall == [op |-> "none", cid |-> Absent, outcome |-> Returns(FALSE),
           reveal |-> {}]

\* signCredential has not been called
NoSignCall ==
    [document |-> NoDocument, cid |-> NoCid, privateKeys |-> <<>>,
     keyId |-> NoKeyId, credentialId |-> Absent, subjectId |-> Absent,
     mandatoryPointers |-> <<>>]

\* no credential is in play
LifeIdle ==
    /\ cids = [c \in Controllers |-> NoCid]
    /\ keyStores = [c \in Controllers |-> <<>>]
    /\ oracle = <<>>
    /\ document = NoDocument
    /\ stage = "Unsigned"
    /\ signer = NoKeyId
    /\ tamper = "none"
    /\ last = NoCall
    /\ signCall = NoSignCall

-----------------------------------------------------------------------------
(* The codec exercised: an envelope or an arbitrary payload is encoded,    *)
(* possibly damaged on the way, and handed to parseDisclosureProofValue.   *)

\* all sequences over S of length at most n
RECURSIVE SeqsUpTo(_, _)
SeqsUpTo(S, n) ==
    IF n = 0 THEN {<<>>}
    ELSE LET shorter == SeqsUpTo(S, n - 1)
         IN shorter \cup {Append(q, x) : q \in shorter, x \in S}

BbsProofSamples == {<<>>, <<255, 0>>}
HeaderSamples == {<<>>, <<1>>}
IndexSamples == {0, 24}
LabelKeySamples == {0, 10}
LabelValueSamples == {0, 2}

Label(k, v) == <<JsStr(Str_c14n \o DecString(k)), JsStr(Str_b \o DecString(v))>>

\* bijective label maps c14n{k} -> b{v}, in every insertion order
LabelMaps ==
    {JsMap([i \in 1..Len(q) |-> Label(q[i][1], q[i][2])]) :
        q \in {r \in SeqsUpTo(LabelKeySamples \X LabelValueSamples, MaxLabels) :
                 \A i, j \in 1..Len(r) :
                    i # j => r[i][1] # r[j][1] /\ r[i][2] # r[j][2]}}

IndexArrays ==
    {JsArr([i \in 1..Len(q) |-> JsNum(q[i])]) : q \in SeqsUpTo(IndexSamples, MaxIdxLen)}

Envelopes ==
    [bbsProof : {JsBytes(b) : b \in BbsProofSamples},
     labelMap : LabelMaps,
     mandatoryIndexes : IndexArrays,
     selectiveIndexes : IndexArrays,
     presentationHeader : {JsBytes(b) : b \in HeaderSamples}]

\* payloads an arbitrary sender may put behind the tag
SomeBytes == JsBytes(<<9>>)
SomeMap == JsMap(<<<<JsNum(1), JsNum(0)>>>>)
SomeInts == JsArr(<<JsNum(0)>>)
PayloadItems ==
    { JsNum(3), JsNull, JsBytes(<<1, 2>>), JsArr(<<>>),
      \* each field in turn of the wrong type
      JsArr(<<JsNum(1), SomeMap, SomeInts, SomeInts, SomeBytes>>),
      JsArr(<<SomeBytes, JsNum(1), SomeInts, SomeInts, SomeBytes>>),
      JsArr(<<SomeBytes, SomeMap, JsNum(0), SomeInts, SomeBytes>>),
      JsArr(<<SomeBytes, SomeMap, JsArr(<<JsStr(<<48>>)>>), SomeInts, SomeBytes>>),
      JsArr(<<SomeBytes, SomeMap, SomeInts, JsNull, SomeBytes>>),
      JsArr(<<SomeBytes, SomeMap, SomeInts, JsArr(<<JsNum(0), JsNull>>), SomeBytes>>),
      JsArr(<<SomeBytes, SomeMap, SomeInts, SomeInts, JsStr(<<48>>)>>),
      JsArr(<<SomeBytes, SomeMap, SomeInts, SomeInts>>),
      \* well-typed, but not what the encoder of the envelope writes
      JsArr(<<Tag64(SomeBytes), SomeMap, SomeInts, SomeInts, Tag64(JsBytes(<<>>))>>),
      JsArr(<<SomeBytes, SomeMap, SomeInts, SomeInts, SomeBytes, JsNum(7)>>),
      JsArr(<<SomeBytes, JsArr(<<JsNum(5)>>), SomeInts, SomeInts, SomeBytes>>),
      JsArr(<<SomeBytes, JsMap(<<<<JsNum(-1), JsStr(<<120>>)>>>>), SomeInts,
              SomeInts, SomeBytes>>),
      JsArr(<<SomeBytes,
              JsMap(<<<<JsNum(1), JsNum(0)>>, <<JsStr(<<49>>), JsNum(2)>>>>),
              SomeInts, SomeInts, SomeBytes>>) }

TextMangles == {"absent", "nonString", "empty", "dropU", "wrongBase",
                "badChar", "extraChar"}
ByteMangles == {"twoBytes", "noBytes", "tagShort", "tagLongFront", "tagLongBack",
                "baseTag", "truncate", "trailing"}

WireOf(bytes) == [proofValue |-> JsStr(Str_u \o Base64urlEncode(bytes))]

\* no proof value is in play
CodecIdle ==
    /\ cpc = "start"
    /\ cKind = "none"
    /\ cEnv = NoParams
    /\ cItem = JsUndef
    /\ cBytes = <<>>
    /\ cProof = [proofValue |-> JsUndef]
    /\ cMangle = "none"
    /\ cLenient = FALSE
    /\ cResult = ParseReturns(NoParams)

InitCodec == CodecIdle /\ LifeIdle /\ VerifyIdle /\ ClassifyIdle /\ PreprocessIdle
             /\ ToolsIdle

SerializeEnvelope ==
    /\ cpc = "start"
    /\ \E e \in Envelopes :
        /\ cEnv' = e
        /\ cItem' = JsArr(<<e.bbsProof, _compressLabelMap(e.labelMap),
                            e.mandatoryIndexes, e.selectiveIndexes,
                            e.presentationHeader>>)
        /\ cProof' = [proofValue |-> serializeDisclosureProofValue(e)]
    /\ cBytes' = CBOR_PREFIX_DERIVED \o CborEncode(cItem')
    /\ cKind' = "envelope"
    /\ cpc' = "encoded"
    /\ UNCHANGED <<cMangle, cLenient, cResult>>
    /\ UNCHANGED notCodecVars

EncodePayload ==
    /\ cpc = "start"
    /\ \E item \in PayloadItems :
        /\ cItem' = item
        /\ cProof' = [proofValue |-> MultibasePayload(item)]
    /\ cBytes' = CBOR_PREFIX_DERIVED \o CborEncode(cItem')
    /\ cKind' = "payload"
    /\ cpc' = "encoded"
    /\ UNCHANGED <<cEnv, cMangle, cLenient, cResult>>
    /\ UNCHANGED notCodecVars

\* the proofValue text is lost or altered
MangleText ==
    /\ cpc = "encoded"
    /\ \E m \in TextMangles :
        /\ cMangle' = m
        /\ cProof' = [proofValue |->
            LET s == cProof.proofValue.v
            IN CASE m = "absent" -> JsUndef
                 [] m = "nonString" -> JsBytes(s)
                 [] m = "empty" -> JsStr(<<>>)
                 [] m = "dropU" -> JsStr(Tail(s))
                 [] m = "wrongBase" -> JsStr(<<122>> \o Tail(s))
                 [] m = "badChar" -> JsStr(<<s[1], s[2], 33>> \o SubSeq(s, 3, Len(s)))
                 [] m = "extraChar" -> JsStr(s \o <<65>>)]
    /\ cpc' = "mangled"
    /\ UNCHANGED <<cKind, cEnv, cItem, cBytes, cLenient, cResult>>
    /\ UNCHANGED notCodecVars

\* the binary is altered and encoded as text again
MangleBytes ==
    /\ cpc = "encoded"
    /\ \E m \in ByteMangles :
        /\ cMangle' = m
        /\ cBytes' =
            LET payload == SubSeq(cBytes, 4, Len(cBytes))
            IN CASE m = "twoBytes" -> <<217, 93>>
                 [] m = "noBytes" -> <<>>
                 [] m = "tagShort" -> <<217, 93>> \o payload
                 [] m = "tagLongFront" -> <<217, 93, 93, 3>> \o payload
                 [] m = "tagLongBack" -> <<217, 93, 3, 0>> \o payload
                 [] m = "baseTag" -> <<217, 93, 2>> \o payload
                 [] m = "truncate" -> SubSeq(cBytes, 1, Len(cBytes) - 1)
                 [] m = "trailing" -> cBytes \o <<0>>
    /\ cProof' = WireOf(cBytes')
    /\ cpc' = "mangled"
    /\ UNCHANGED <<cKind, cEnv, cItem, cLenient, cResult>>
    /\ UNCHANGED notCodecVars

FlipBit(byte, k) ==
    IF (byte \div (2 ^ k)) % 2 = 0 THEN byte + 2 ^ k ELSE byte - 2 ^ k

\* one bit of bbsProof is flipped inside an otherwise unchanged envelope
FlipProofBit ==
    /\ cpc = "encoded"
    /\ cKind = "envelope"
    /\ Len(cEnv.bbsProof.v) > 0
    /\ \E i \in 1..Len(cEnv.bbsProof.v), k \in {0, 7} :
        LET flipped == [cEnv EXCEPT !.bbsProof =
                          JsBytes([cEnv.bbsProof.v EXCEPT ![i] = FlipBit(@, k)])]
        IN /\ cProof' = [proofValue |-> serializeDisclosureProofValue(flipped)]
           /\ cBytes' = Base64urlDecode(Tail(cProof'.proofValue.v), FALSE).bytes
    /\ cMangle' = "flipProofBit"
    /\ cpc' = "mangled"
    /\ UNCHANGED <<cKind, cEnv, cItem, cLenient, cResult>>
    /\ UNCHANGED notCodecVars

Parse ==
    /\ cpc \in {"encoded", "mangled"}
    /\ \E lenient \in BOOLEAN :
        /\ cLenient' = lenient
        /\ cResult' = parseDisclosureProofValue(cProof, lenient)
    /\ cpc' = "parsed"
    /\ UNCHANGED <<cKind, cEnv, cItem, cBytes, cProof, cMangle>>
    /\ UNCHANGED notCodecVars

NextCodec ==
    \/ SerializeEnvelope
    \/ EncodePayload
    \/ MangleText
    \/ MangleBytes
    \/ FlipProofBit
    \/ Parse

SpecCodec == InitCodec /\ [][NextCodec]_vars

-----------------------------------------------------------------------------
(* The lifecycle as a state machine.                                       *)

\* the highest key number a caller asks for
MaxKeyNumber == 3

\* options of generate-cid: a flag is left out or switched off
CidOptions == [includeEd25519 : {Absent, "false"}, includeBBS : {Absent, "false"}]

CredentialIds == {Absent, "urn:uuid:credential"}
SubjectIds == {Absent}

UnsignedDocuments ==
    {[id |-> Absent,
      claims |-> [p \in PointerSet |->
                    CASE p = "/claim" -> "x"
                      [] p = "/name" -> name
                      [] p = "/validFrom" -> validFrom
                      [] OTHER -> Absent],
      proof |-> NoProof] :
        name \in {Absent, "n"}, validFrom \in {Absent, "2024-01-01T00:00:00Z"}}

RevealSets == {{}, {"/claim"}, {"/name"}, {"/claim", "/name"}, {"/issuer", "/claim"}}

TamperKinds == {"claim", "issuer", "proofBit", "indexes", "dropMultibase",
                "dropIssuer", "dropProof"}

Init ==
    /\ CodecIdle
    /\ VerifyIdle
    /\ ClassifyIdle
    /\ PreprocessIdle
    /\ ToolsIdle
    /\ cids = [c \in Controllers |-> NoCid]
    /\ keyStores = [c \in Controllers |-> <<>>]
    /\ oracle = <<>>
    /\ document \in UnsignedDocuments
    /\ stage = "Unsigned"
    /\ signer = NoKeyId
    /\ tamper = "none"
    /\ last = NoCall
    /\ signCall = NoSignCall

Generated(controller, generated) ==
    /\ cids' = [cids EXCEPT ![controller] = generated.cid]
    /\ keyStores' = [keyStores EXCEPT ![controller] = generated.privateKeys]

\* generate-cid
GenerateCID ==
    /\ stage = "Unsigned"
    /\ oracle = <<>>
    /\ \E controller \in Controllers, options \in CidOptions :
        /\ cids[controller] = NoCid
        /\ Generated(controller, generateCIDDocument(controller, options))
    /\ last' = NoCall
    /\ UNCHANGED <<oracle, document, stage, signer, tamper, signCall>>
    /\ UNCHANGED notLifeVars

\* the credential in play is the signed one; a failed call leaves the
\* caller's document as signCredential stamped it
Signed(controller, keyId, r) ==
    /\ last' = [op |-> "sign", cid |-> controller, outcome |-> r.outcome,
                reveal |-> {}]
    /\ oracle' = r.oracle
    /\ IF r.outcome.kind = "return"
       THEN /\ document' = r.signedVC
            /\ stage' = "Signed"
            /\ signer' = keyId
       ELSE /\ document' = r.document
            /\ UNCHANGED <<stage, signer>>

\* the call is on record, with the pointers it handed to the signer
SignCalled(controller, privateKeys, keyId, credentialId, subjectId, r) ==
    /\ signCall' =
          [document |-> document, cid |-> cids[controller],
           privateKeys |-> privateKeys, keyId |-> keyId,
           credentialId |-> credentialId, subjectId |-> subjectId,
           mandatoryPointers |-> r.mandatoryPointers]
    /\ Signed(controller, keyId, r)

\* signCredential called with the CID document of a controller, a key id, a
\* key store, and options drawn from the given sets
SignCredentialFrom(credentialIds, subjectIds, otherStores) ==
    /\ stage = "Unsigned"
    /\ \E controller \in Controllers, n \in 1..MaxKeyNumber,
          credentialId \in credentialIds, subjectId \in subjectIds :
        /\ cids[controller] # NoCid
        /\ \E privateKeys \in {keyStores[controller]} \cup otherStores :
              SignCalled(controller, privateKeys, KeyId(controller, n),
                         credentialId, subjectId,
                         signCredential(cids[controller], privateKeys, document,
                                        KeyId(controller, n), credentialId,
                                        subjectId, oracle))
    /\ UNCHANGED <<cids, keyStores, tamper>>
    /\ UNCHANGED notLifeVars

\* sign-credential with the key store generated with the CID document
SignCredential == SignCredentialFrom(CredentialIds, SubjectIds, {})

\* the credential in play is the derived one
Derived(revealPointers, r) ==
    /\ last' = [op |-> "derive", cid |-> Absent, outcome |-> r.outcome,
                reveal |-> IF r.outcome.kind = "return" THEN revealPointers
                           ELSE {}]
    /\ oracle' = r.oracle
    /\ document' = r.derived
    /\ stage' = IF r.outcome.kind = "return" THEN "Derived" ELSE stage

\* derive-proof
DeriveProof ==
    /\ tamper = "none"
    /\ \E revealPointers \in RevealSets :
        Derived(revealPointers, deriveProof(document, revealPointers, oracle))
    /\ UNCHANGED <<cids, keyStores, signer, tamper, signCall>>
    /\ UNCHANGED notLifeVars

\* the envelope of a derived credential, and the credential with another one
EnvelopeOf(doc) ==
    parseDisclosureProofValue([proofValue |-> doc.proof.proofValue], FALSE).params
Reenveloped(doc, envelope) ==
    [doc EXCEPT !.proof.proofValue = serializeDisclosureProofValue(envelope)]

FlipFirstBit(bytes) == [bytes EXCEPT !.v[1] = FlipBit(@, 0)]
FlipLastBit(bytes) == [bytes EXCEPT !.v[1] = FlipBit(@, 7)]

Tampered(doc, kind, high) ==
    CASE kind = "claim" -> [doc EXCEPT !.claims["/claim"] = "y"]
      [] kind = "issuer" ->
            [doc EXCEPT !.claims["/issuer"] = "http://example.org/mallory"]
      [] kind = "dropIssuer" -> [doc EXCEPT !.claims["/issuer"] = Absent]
      [] kind = "dropProof" -> [doc EXCEPT !.proof = NoProof]
      [] kind = "dropMultibase" ->
            [doc EXCEPT !.proof.proofValue = JsStr(Tail(@.v))]
      [] kind = "proofBit" ->
            IF doc.proof.type = "Ed25519Signature2020"
            THEN [doc EXCEPT !.proof.proofValue =
                     JsStr(SignatureText(
                         <<FlipBit(SignatureBytes(@.v)[1], IF high THEN 7 ELSE 0)>>))]
            ELSE Reenveloped(doc, [EnvelopeOf(doc) EXCEPT !.bbsProof =
                                      IF high THEN FlipLastBit(@) ELSE FlipFirstBit(@)])
      [] kind = "indexes" ->
            Reenveloped(doc, [EnvelopeOf(doc) EXCEPT !.mandatoryIndexes = JsArr(<<>>)])

\* the credential is altered between the holder and the verifier
Tamper ==
    /\ stage \in {"Signed", "Derived"}
    /\ tamper = "none"
    /\ \E kind \in TamperKinds, high \in BOOLEAN :
        /\ kind = "claim" => document.claims["/claim"] # Absent
        /\ kind = "proofBit" =>
              stage = "Derived" \/ document.proof.type = "Ed25519Signature2020"
        /\ kind = "indexes" => stage = "Derived"
        /\ kind # "proofBit" => ~high
        /\ tamper' = kind
        /\ document' = Tampered(document, kind, high)
    /\ last' = NoCall
    /\ UNCHANGED <<cids, keyStores, oracle, stage, signer, signCall>>
    /\ UNCHANGED notLifeVars

\* verify-credential
VerifyCredential ==
    /\ \E controller \in Controllers, lenient \in BOOLEAN :
        /\ cids[controller] # NoCid
        /\ last' = [op |-> "verify", cid |-> controller,
                    outcome |-> verifyCredential(cids[controller], document,
                                                 lenient, oracle),
                    reveal |-> {}]
        /\ document' = DocumentAfterVerify(cids[controller], document)
    /\ UNCHANGED <<cids, keyStores, oracle, stage, signer, tamper, signCall>>
    /\ UNCHANGED notLifeVars

Next ==
    \/ GenerateCID
    \/ SignCredential
    \/ DeriveProof
    \/ Tamper
    \/ VerifyCredential

Spec == Init /\ [][Next]_vars

-----------------------------------------------------------------------------
(* One call of _createVerifyData, its body interleaved with the proof hash *)
(* computation.                                                            *)

\* positions an envelope may name: of a statement, and past the last one
VdIndexSamples == {0, 1, 5}

VdIndexArrays ==
    {JsArr([i \in 1..Len(q) |-> JsNum(q[i])]) :
        q \in SeqsUpTo(VdIndexSamples, MaxIdxLen)}

VdEnvelopes ==
    [bbsProof : {JsBytes(<<1>>)},
     labelMap : {JsMap(<<>>), HmacLabelMap},
     mandatoryIndexes : VdIndexArrays,
     selectiveIndexes : {JsArr(<<JsNum(0)>>)},
     presentationHeader : {JsBytes(<<>>)}]

\* the proof values handed in: every envelope, and one that is no envelope
VdProofValues ==
    {serializeDisclosureProofValue(e) : e \in VdEnvelopes} \cup {JsStr(<<122>>)}

VdController == CHOOSE c \in Controllers : TRUE

\* derived credentials of one to three statements
VdDocuments ==
    {[id |-> id,
      claims |-> [p \in PointerSet |->
                    CASE p = "/issuer" -> VdController
                      [] p = "/claim" -> claim
                      [] p = "/name" -> name
                      [] OTHER -> Absent],
      proof |-> [type |-> "DataIntegrityProof", cryptosuite |-> "bbs-2023",
                 verificationMethod |-> KeyId(VdController, 1), created |-> Now,
                 proofPurpose |-> "assertionMethod", proofValue |-> proofValue]] :
        id \in {Absent, "urn:uuid:credential"}, claim \in {Absent, "x"},
        name \in {Absent, "n"}, proofValue \in VdProofValues}

VdEnvs ==
    [proofHash : {"resolves", "rejectsWithError", "rejectsWithValue"},
     canonize : {"resolves", "rejects"},
     hashMandatory : {"resolves", "rejects"}]

\* lines 15-23: the proof is taken off the document and the proof hash
\* computation is started
VdCall ==
    /\ vpc = "idle"
    /\ vpc' = "called"
    /\ \E doc \in VdDocuments :
        /\ vDoc' = TakeProof(doc).caller
        /\ vLocal' = [vLocal EXCEPT !.proof = TakeProof(doc).proof,
                                    !.document = TakeProof(doc).document]
    /\ vEnv' \in VdEnvs
    /\ vPromise' = Pending
    /\ UNCHANGED vOut
    /\ UNCHANGED notVerifyVars

\* the proof hash computation ends, at any time after it was started
VdProofHashSettles ==
    /\ vpc # "idle"
    /\ vPromise.state = "pending"
    /\ vPromise' = CatchIdentity(hashCanonizedProof(vLocal.proof, vEnv.proofHash))
    /\ UNCHANGED <<vpc, vDoc, vEnv, vLocal, vOut>>
    /\ UNCHANGED notVerifyVars

\* lines 26-28
VdParse ==
    /\ vpc = "called"
    /\ LET parsed == parseDisclosureProofValue(
                         [proofValue |-> vLocal.proof.proofValue], FALSE)
       IN IF parsed.ok
          THEN /\ vpc' = "parsed"
               /\ vLocal' = [vLocal EXCEPT !.params = parsed.params]
               /\ UNCHANGED vOut
          ELSE /\ vpc' = "done"
               /\ vOut' = Rejects(JsError(parsed.name, parsed.message), vPromise)
               /\ UNCHANGED vLocal
    /\ UNCHANGED <<vDoc, vEnv, vPromise>>
    /\ UNCHANGED notVerifyVars

\* lines 31-33
VdCanonize ==
    /\ vpc = "parsed"
    /\ IF vEnv.canonize = "resolves"
       THEN /\ vpc' = "canonized"
            /\ vLocal' = [vLocal EXCEPT !.nquads =
                             labelReplacementCanonicalizeJsonLd(
                                 vLocal.document, vLocal.params.labelMap)]
            /\ UNCHANGED vOut
       ELSE /\ vpc' = "done"
            /\ vOut' = Rejects(JsError("jsonld.SyntaxError", "canonize failed"),
                               vPromise)
            /\ UNCHANGED vLocal
    /\ UNCHANGED <<vDoc, vEnv, vPromise>>
    /\ UNCHANGED notVerifyVars

\* lines 36-44
VdPartition ==
    /\ vpc = "canonized"
    /\ vpc' = "partitioned"
    /\ LET parts == PartitionByMandatory(vLocal.nquads, vLocal.params)
       IN vLocal' = [vLocal EXCEPT !.mandatory = parts.mandatory,
                                   !.nonMandatory = parts.nonMandatory]
    /\ UNCHANGED <<vDoc, vEnv, vPromise, vOut>>
    /\ UNCHANGED notVerifyVars

\* line 47
VdHashMandatory ==
    /\ vpc = "partitioned"
    /\ IF vEnv.hashMandatory = "resolves"
       THEN /\ vpc' = "hashed"
            /\ vLocal' = [vLocal EXCEPT !.mandatoryHash =
                             sha256digest(canonize(vLocal.mandatory))]
            /\ UNCHANGED vOut
       ELSE /\ vpc' = "done"
            /\ vOut' = Rejects(JsError("Error", "digest failed"), vPromise)
            /\ UNCHANGED vLocal
    /\ UNCHANGED <<vDoc, vEnv, vPromise>>
    /\ UNCHANGED notVerifyVars

\* lines 50-57: the body waits for proofHashPromise
VdJoin ==
    /\ vpc = "hashed"
    /\ vPromise.state = "fulfilled"
    /\ vpc' = "done"
    /\ vOut' = Join(vPromise.value, vLocal)
    /\ UNCHANGED <<vDoc, vEnv, vPromise, vLocal>>
    /\ UNCHANGED notVerifyVars

NextVerifyData ==
    \/ VdCall
    \/ VdProofHashSettles
    \/ VdParse
    \/ VdCanonize
    \/ VdPartition
    \/ VdHashMandatory
    \/ VdJoin

SpecVerifyData == InitCodec /\ [][NextVerifyData]_vars

-----------------------------------------------------------------------------
(* The key family of a verification method, as signCredential and          *)
(* verifyCredential each decide it.                                        *)

\* the characters z U C 7 6
KeyChars == {122, 85, 67, 55, 54}

\* every publicKeyMultibase up to the bound
KeySamples == SeqsUpTo(KeyChars, MaxKeyLen)

KeyMethod(multibase) ==
    [id |-> KeyId(VdController, 1), type |-> "Multikey",
     controller |-> VdController, publicKeyMultibase |-> multibase]

InitClassify ==
    /\ CodecIdle /\ LifeIdle /\ VerifyIdle /\ PreprocessIdle
    /\ ToolsIdle
    /\ kKey \in KeySamples
    /\ kSign = "none"
    /\ kVerify = "none"

\* signCredential reaches line 150 with the method
ClassifyAtSign ==
    /\ kSign' = signSuite(KeyMethod(kKey))
    /\ UNCHANGED <<kKey, kVerify>>
    /\ UNCHANGED notClassifyVars

\* verifyCredential reaches line 222 with the method
ClassifyAtVerify ==
    /\ kVerify' = verifySuite(KeyMethod(kKey))
    /\ UNCHANGED <<kKey, kSign>>
    /\ UNCHANGED notClassifyVars

NextClassify ==
    \/ ClassifyAtSign
    \/ ClassifyAtVerify

SpecClassify == InitClassify /\ [][NextClassify]_vars

-----------------------------------------------------------------------------
(* signCredential on its own, over credentials that already carry an       *)
(* issuer, an id, a subject or validity dates, and over key stores that    *)
(* were not generated with the CID document.                               *)

\* credentials as a caller may hand them in
SignDocuments ==
    {[id |-> id,
      claims |-> [p \in PointerSet |->
                    CASE p = "/claim" -> "x"
                      [] p = "/issuer" -> issuer[1]
                      [] p = "/issuer/name" -> issuer[2]
                      [] p = "/credentialSubject/id" -> subject
                      [] p = "/validFrom" -> validFrom
                      [] p = "/validUntil" -> validUntil
                      [] OTHER -> Absent],
      proof |-> NoProof] :
        id \in {Absent, "urn:uuid:old"},
        issuer \in {<<Absent, Absent>>,
                    <<"http://example.org/old-issuer", Absent>>,
                    <<"http://example.org/old-issuer", "Old Issuer">>},
        subject \in {Absent, "urn:uuid:old-subject"},
        validFrom \in {Absent, "", "2024-01-01T00:00:00Z"},
        validUntil \in {Absent, "", "2030-01-01T00:00:00Z"}}

SignCredentialIds == {Absent, "", "urn:uuid:credential"}
SignSubjectIds == {Absent, "", "urn:uuid:subject"}

\* key stores a caller may hand in: an empty one, and the one generate-cid
\* writes with both keys
OtherStores ==
    {<<>>, generateCID(VdController, TRUE, TRUE).privateKeys}

\* a controller has generated its CID document; a credential is at hand
InitSign ==
    /\ CodecIdle /\ VerifyIdle /\ ClassifyIdle /\ PreprocessIdle
    /\ ToolsIdle
    /\ \E options \in CidOptions :
        /\ cids = [c \in Controllers |->
                     IF c = VdController
                     THEN generateCIDDocument(c, options).cid ELSE NoCid]
        /\ keyStores = [c \in Controllers |->
                          IF c = VdController
                          THEN generateCIDDocument(c, options).privateKeys
                          ELSE <<>>]
    /\ oracle = <<>>
    /\ document \in SignDocuments
    /\ stage = "Unsigned"
    /\ signer = NoKeyId
    /\ tamper = "none"
    /\ last = NoCall
    /\ signCall = NoSignCall

\* one call of signCredential with any of the options and key stores
SignAnyCredential ==
    /\ last = NoCall
    /\ SignCredentialFrom(SignCredentialIds, SignSubjectIds, OtherStores)

NextSign == SignAnyCredential

SpecSign == InitSign /\ [][NextSign]_vars

-----------------------------------------------------------------------------
(* preprocessEd25519Verification on its own: a credential has been signed  *)
(* with one of the controller's keys, and perhaps altered since.           *)

\* the world after signCredential has signed `doc` with the n-th key
SignedWorld(generated, r, n, altered) ==
    /\ cids = [c \in Controllers |-> IF c = VdController THEN generated.cid
                                     ELSE NoCid]
    /\ keyStores = [c \in Controllers |->
                      IF c = VdController THEN generated.privateKeys ELSE <<>>]
    /\ oracle = r.oracle
    /\ document = IF altered THEN [r.signedVC EXCEPT !.claims["/claim"] = "y"]
                  ELSE r.signedVC
    /\ stage = "Signed"
    /\ signer = KeyId(VdController, n)
    /\ tamper = IF altered THEN "claim" ELSE "none"
    /\ last = [op |-> "sign", cid |-> VdController, outcome |-> r.outcome,
               reveal |-> {}]
    /\ signCall = NoSignCall

InitPreprocess ==
    /\ CodecIdle /\ VerifyIdle /\ ClassifyIdle /\ PreprocessIdle
    /\ ToolsIdle
    /\ \E doc \in SignDocuments, n \in 1..2, altered \in BOOLEAN :
          SignedWorld(generateCID(VdController, TRUE, TRUE),
                      signCredential(generateCID(VdController, TRUE, TRUE).cid,
                                     generateCID(VdController, TRUE, TRUE).privateKeys,
                                     doc, KeyId(VdController, n), Absent, Absent,
                                     <<>>),
                      n, altered)

\* preprocessEd25519Verification({document, cid})
PreprocessEd25519Verification ==
    /\ \E controller \in Controllers :
        /\ cids[controller] # NoCid
        /\ pre' = preprocessEd25519Verification(cids[controller], document, oracle)
    /\ UNCHANGED notPreprocessVars

NextPreprocess == PreprocessEd25519Verification

SpecPreprocess == InitPreprocess /\ [][NextPreprocess]_vars

-----------------------------------------------------------------------------
(* Properties of the lifecycle (checked under Spec).                       *)

\* the verification method the credential in play was signed with
SignerMethod ==
    cids[signer.url].verificationMethod[
        FindById(cids[signer.url].verificationMethod, signer).at]

SignerIsMultiMessage == startsWith(SignerMethod.publicKeyMultibase, Str_zUC7)

\* the latest call verified the credential, as it was produced, against the
\* CID document of the controller that signed it
VerifiedAgainstSigner ==
    /\ stage \in {"Signed", "Derived"}
    /\ tamper = "none"
    /\ last.op = "verify"
    /\ last.cid = signer.url

\* the same, against the CID document of another controller
VerifiedAgainstOther ==
    /\ stage \in {"Signed", "Derived"}
    /\ tamper = "none"
    /\ last.op = "verify"
    /\ last.cid # signer.url

C2_DeriveThenVerify ==
    (stage = "Derived" /\ VerifiedAgainstSigner) => last.outcome = Returns(TRUE)

\* a derived credential that discloses one claim and hides another verified
C2_Witness ==
    /\ stage = "Derived"
    /\ VerifiedAgainstSigner
    /\ last.outcome = Returns(TRUE)
    /\ Len(oracle) = 2
    /\ Len(oracle[2].body.messages) = 1
    /\ Len(oracle[1].body) > 1

\* C3, as stated: verifying a derived credential against the CID document of
\* another controller returns false.
C3_OtherControllerFalse ==
    (stage = "Derived" /\ VerifiedAgainstOther) => last.outcome = Returns(FALSE)

\* C3, amended: verifying a derived credential against the CID document of
\* another controller throws: the proof's verification method is not found
\* in that document.
C3_OtherControllerThrows ==
    (stage = "Derived" /\ VerifiedAgainstOther)
        => last.outcome = Throws("Error",
                                 "Verification method not found in CID document")

C3_Witness ==
    /\ stage = "Derived"
    /\ VerifiedAgainstOther
    /\ Len(cids[last.cid].verificationMethod) = 2
    /\ last.outcome.kind = "throw"

\* the credential verified has a proof and an issuer, and the proof's
\* verification method is in the CID document it was verified against
Resolvable ==
    /\ document.proof # NoProof
    /\ document.claims["/issuer"] # Absent
    /\ FindById(cids[last.cid].verificationMethod,
                document.proof.verificationMethod).found

\* alterations that leave the credential well formed but not what was signed
MismatchKinds == {"claim", "issuer", "proofBit", "indexes", "dropMultibase"}

\* C4: when the proof's verification method resolves, verifyCredential
\* returns, and returns false when the signature or proof does not match the
\* credential; it throws only for a resolution or structural problem.
C4_MismatchReturnsFalse ==
    last.op = "verify" =>
        /\ Resolvable => last.outcome.kind = "return"
        /\ (Resolvable /\ tamper \in MismatchKinds) => last.outcome = Returns(FALSE)
        /\ last.outcome.kind = "throw" =>
              last.outcome.error[1] \in {"Error", "TypeError"}

\* one bit of bbsProof flipped in a derived credential: verified as false
C4_Witness ==
    /\ stage = "Derived"
    /\ tamper = "proofBit"
    /\ last.op = "verify"
    /\ last.cid = signer.url
    /\ Resolvable
    /\ last.outcome = Returns(FALSE)

-----------------------------------------------------------------------------
(* Properties of the codec (checked under SpecCodec).                      *)

MalformedProof(r) ==
    /\ ~r.ok
    /\ r.name = "TypeError"
    /\ r.message = "The proof does not include a valid proofValue property"
    /\ r.cause.message # ""
    /\ r.params = NoParams

ValuesOf(arr) == {arr.v[i].v : i \in 1..Len(arr.v)}
PairsOf(map) == {map.v[i] : i \in 1..Len(map.v)}

\* C5: a proofValue 'u' + base64url(bytes) whose bytes do not start with exactly
\* 0xd9 0x5d 0x03 (too short, a tag one byte short or long, the base-proof tag)
\* is rejected with the malformed-proof error, its cause being the tag check.
C5_PrefixStrictness ==
    (/\ cpc = "parsed"
     /\ cProof.proofValue.t = "string"
     /\ Len(cProof.proofValue.v) > 0
     /\ cProof.proofValue.v[1] = 117
     /\ LET d == Base64urlDecode(Tail(cProof.proofValue.v), cLenient)
        IN /\ d.ok
           /\ ~(Len(d.bytes) >= 3 /\ SubSeq(d.bytes, 1, 3) = <<217, 93, 3>>))
    => /\ MalformedProof(cResult)
       /\ cResult.cause.message = "proof.proofValue must be a derived proof"

C5_Witness ==
    /\ cpc = "parsed"
    /\ cKind = "envelope"
    /\ cMangle = "tagShort"
    /\ MalformedProof(cResult)
    /\ cResult.cause.message = "proof.proofValue must be a derived proof"

\* C6: a proofValue string whose first character is not 'u' (the empty string
\* included) is rejected with the malformed-proof error, and the cause is the
\* multibase check itself, so nothing was decoded before it.
C6_MultibaseFirst ==
    (/\ cpc = "parsed"
     /\ cProof.proofValue.t = "string"
     /\ (Len(cProof.proofValue.v) = 0 \/ cProof.proofValue.v[1] # 117))
    => /\ MalformedProof(cResult)
       /\ cResult.cause.name = "Error"
       /\ cResult.cause.message = "Only base64url multibase encoding is supported"

C6_Witness ==
    /\ cpc = "parsed"
    /\ cMangle = "empty"
    /\ cProof.proofValue = JsStr(<<>>)
    /\ cResult.cause.message = "Only base64url multibase encoding is supported"

\* the payloads of PayloadItems that some step of the decoding must refuse
IllShapedPayload(item) ==
    \/ item.t # "array"
    \/ Len(item.v) < 5
    \/ item.v[1].t \notin {"uint8array", "tag64"}
    \/ item.v[2].t \notin {"map", "array", "uint8array"}
    \/ ~IsIntegerArray(item.v[3])
    \/ ~IsIntegerArray(item.v[4])
    \/ item.v[5].t \notin {"uint8array", "tag64"}

\* C7: whichever step fails (proofValue absent or not a string, wrong multibase
\* character, wrong tag, binary decoding, label-map expansion, validation of
\* the shape), the failure is the one TypeError carrying the underlying error
\* as its cause, and no decoded parameter is returned with it.
C7_SingleErrorType ==
    cpc = "parsed" =>
        /\ ~cResult.ok => MalformedProof(cResult)
        /\ cMangle \in {"absent", "nonString", "empty", "dropU", "wrongBase",
                        "twoBytes", "noBytes", "tagShort", "tagLongFront",
                        "tagLongBack", "baseTag", "truncate", "trailing"}
             => ~cResult.ok
        /\ (cMangle = "none" /\ cKind = "payload" /\ IllShapedPayload(cItem))
             => ~cResult.ok
        /\ cMangle \in {"absent", "nonString"}
             => cResult.cause.message = "proof.proofValue must be a string"
        /\ cResult.ok => _validateDerivedProofParams(cResult.params) = ""

C7_Witness ==
    /\ cpc = "parsed"
    /\ cKind = "payload"
    /\ cMangle = "none"
    /\ cItem.t = "array"
    /\ Len(cItem.v) = 5
    /\ cItem.v[5].t = "string"
    /\ MalformedProof(cResult)
    /\ cResult.cause.message = "presentationHeader must be a Uint8Array"

\* C8: decoding the encoding of a valid envelope gives the envelope back field
\* by field; the label map is compared as a set of entries (the encoder
\* writes a map's entries in key order).
C8_RoundTrip ==
    (cpc = "parsed" /\ cKind = "envelope" /\ cMangle = "none")
    => /\ cResult.ok
       /\ cResult.params.bbsProof = cEnv.bbsProof
       /\ cResult.params.labelMap.t = "map"
       /\ Len(cResult.params.labelMap.v) = Len(cEnv.labelMap.v)
       /\ PairsOf(cResult.params.labelMap) = PairsOf(cEnv.labelMap)
       /\ cResult.params.mandatoryIndexes = cEnv.mandatoryIndexes
       /\ cResult.params.selectiveIndexes = cEnv.selectiveIndexes
       /\ cResult.params.presentationHeader = cEnv.presentationHeader

C8_Witness ==
    /\ cpc = "parsed"
    /\ cKind = "envelope"
    /\ cMangle = "none"
    /\ cResult.ok
    /\ Len(cEnv.labelMap.v) = 2
    /\ cResult.params.labelMap.v # cEnv.labelMap.v
    /\ PairsOf(cResult.params.labelMap) = PairsOf(cEnv.labelMap)
    /\ Len(cEnv.mandatoryIndexes.v) = 2

\* the compressed label map of the payload that was put on the wire
HasCompressedMap ==
    /\ cpc = "parsed"
    /\ cMangle = "none"
    /\ cResult.ok
    /\ cItem.t = "array"
    /\ Len(cItem.v) >= 2
    /\ cItem.v[2].t = "map"
Compressed == cItem.v[2].v
ExpandedEntry(p) ==
    <<JsStr(<<99, 49, 52, 110>> \o JsToString(p[1])), JsStr(<<98>> \o JsToString(p[2]))>>

\* C9 as claimed: for every compressed label map the returned labelMap has
\* exactly one entry "c14n"k -> "b"v per compressed entry (k, v), and distinct
\* compressed keys give distinct expanded keys.
C9_ExpansionEveryMap ==
    HasCompressedMap =>
        /\ Len(cResult.params.labelMap.v) = Len(Compressed)
        /\ PairsOf(cResult.params.labelMap)
             = {ExpandedEntry(Compressed[i]) : i \in 1..Len(Compressed)}
        /\ \A i, j \in 1..Len(Compressed) :
              i # j => ExpandedEntry(Compressed[i])[1] # ExpandedEntry(Compressed[j])[1]

\* C9 as amended: the same, for every compressed label map whose keys are all
\* integers (an integer key and a text key with the same digits expand to the
\* same label).
C9_ExpansionIntegerKeys ==
    (HasCompressedMap /\ \A i \in 1..Len(Compressed) : Compressed[i][1].t = "number")
    => /\ Len(cResult.params.labelMap.v) = Len(Compressed)
       /\ PairsOf(cResult.params.labelMap)
            = {<<JsStr(<<99, 49, 52, 110>> \o DecString(Compressed[i][1].v)),
                 JsStr(<<98>> \o JsToString(Compressed[i][2]))>> :
                    i \in 1..Len(Compressed)}
       /\ \A i, j \in 1..Len(Compressed) :
             i # j => DecString(Compressed[i][1].v) # DecString(Compressed[j][1].v)

C9_Witness ==
    /\ HasCompressedMap
    /\ Len(Compressed) = 2
    /\ \A i \in 1..Len(Compressed) : Compressed[i][1].t = "number"
    /\ Len(cResult.params.labelMap.v) = 2
    /\ \E i \in 1..2 : cResult.params.labelMap.v[i]
                         = <<JsStr(<<99, 49, 52, 110, 49, 48>>), JsStr(<<98, 50>>)>>

\* C10 as claimed: in every envelope parseDisclosureProofValue returns,
\* mandatoryIndexes and selectiveIndexes have no integer in common.
C10_IndexesDisjoint ==
    (cpc = "parsed" /\ cResult.ok)
    => ValuesOf(cResult.params.mandatoryIndexes)
         \cap ValuesOf(cResult.params.selectiveIndexes) = {}

\* C10 as amended: in every envelope parseDisclosureProofValue returns,
\* mandatoryIndexes and selectiveIndexes are each an array of integers, given
\* back as they were encoded; the same integer may occur in both.
C10_IndexesIntegerArrays ==
    (cpc = "parsed" /\ cResult.ok)
    => /\ cResult.params.mandatoryIndexes.t = "array"
       /\ cResult.params.selectiveIndexes.t = "array"
       /\ \A i \in 1..Len(cResult.params.mandatoryIndexes.v) :
             cResult.params.mandatoryIndexes.v[i].t = "number"
       /\ \A i \in 1..Len(cResult.params.selectiveIndexes.v) :
             cResult.params.selectiveIndexes.v[i].t = "number"
       /\ (cKind = "envelope" /\ cMangle \in {"none", "flipProofBit"})
            => /\ cResult.params.mandatoryIndexes = cEnv.mandatoryIndexes
               /\ cResult.params.selectiveIndexes = cEnv.selectiveIndexes

C10_Witness ==
    /\ cpc = "parsed"
    /\ cResult.ok
    /\ cResult.params.mandatoryIndexes = JsArr(<<JsNum(0), JsNum(24)>>)
    /\ cResult.params.selectiveIndexes = JsArr(<<JsNum(0)>>)

-----------------------------------------------------------------------------
(* Properties of _createVerifyData (checked under SpecVerifyData).         *)

\* the 1-based positions of the canonical statements whose 0-based index
\* occurs in mandatoryIndexes
NamedPositions ==
    {k \in 1..Len(vLocal.nquads) :
        \E j \in 1..Len(vLocal.params.mandatoryIndexes.v) :
            vLocal.params.mandatoryIndexes.v[j] = JsNum(k - 1)}

OtherPositions == (1..Len(vLocal.nquads)) \ NamedPositions

\* how many positions of S are at or before k
Rank(S, k) == Cardinality({j \in S : j <= k})

\* the partition has been made
Partitioned ==
    \/ vpc \in {"partitioned", "hashed"}
    \/ vpc = "done" /\ vOut.kind = "return"

\* C11: once the statements are partitioned, `mandatory` holds exactly the
\* statements whose position is named in mandatoryIndexes and `nonMandatory`
\* all the others, each in canonical order; every statement is in exactly one
\* of the two, the lengths add up to the number of statements, and an index
\* that is out of range or repeated adds nothing.  The bundle returned
\* carries these two lists.
C11_PartitionExact ==
    Partitioned =>
        /\ Len(vLocal.mandatory) = Cardinality(NamedPositions)
        /\ Len(vLocal.nonMandatory) = Cardinality(OtherPositions)
        /\ Len(vLocal.mandatory) + Len(vLocal.nonMandatory) = Len(vLocal.nquads)
        /\ \A k \in NamedPositions :
              vLocal.mandatory[Rank(NamedPositions, k)] = vLocal.nquads[k]
        /\ \A k \in OtherPositions :
              vLocal.nonMandatory[Rank(OtherPositions, k)] = vLocal.nquads[k]
        /\ vOut.kind = "return" =>
              /\ vOut.bundle.mandatory = vLocal.mandatory
              /\ vOut.bundle.nonMandatory = vLocal.nonMandatory

\* three statements partitioned by an envelope that names the second one and
\* a position past the last
C11_Witness ==
    /\ vpc = "done"
    /\ vOut.kind = "return"
    /\ Len(vLocal.nquads) = 3
    /\ vLocal.params.mandatoryIndexes = JsArr(<<JsNum(1), JsNum(5)>>)
    /\ vOut.bundle.mandatory = <<vLocal.nquads[2]>>
    /\ vOut.bundle.nonMandatory = <<vLocal.nquads[1], vLocal.nquads[3]>>

\* every step of the body succeeds in this call
BodySucceeds ==
    /\ parseDisclosureProofValue([proofValue |-> vDoc.proof.proofValue], FALSE).ok
    /\ vEnv.canonize = "resolves"
    /\ vEnv.hashMandatory = "resolves"

\* C12: whenever the proof hash computation fails, with whatever rejection
\* value, and the other steps succeed, the call fails with that same value;
\* it never returns a bundle.
C12_HashFailurePropagates ==
    (vpc = "done" /\ vEnv.proofHash # "resolves" /\ BodySucceeds) =>
        /\ vOut.kind = "throw"
        /\ vOut.thrown = hashCanonizedProof(vDoc.proof, vEnv.proofHash).value

\* the call run with nothing interleaved: each step in the order of the
\* source, the proof hash awaited at line 50
SequentialOutcome(doc, env, parsed) ==
    IF ~parsed.ok
    THEN [kind |-> "throw", bundle |-> NoBundle,
          thrown |-> JsError(parsed.name, parsed.message)]
    ELSE IF env.canonize # "resolves"
    THEN [kind |-> "throw", bundle |-> NoBundle,
          thrown |-> JsError("jsonld.SyntaxError", "canonize failed")]
    ELSE IF env.hashMandatory # "resolves"
    THEN [kind |-> "throw", bundle |-> NoBundle,
          thrown |-> JsError("Error", "digest failed")]
    ELSE
      LET parts == PartitionByMandatory(
                       labelReplacementCanonicalizeJsonLd(
                           [doc EXCEPT !.proof = NoProof], parsed.params.labelMap),
                       parsed.params)
      IN Join(CatchIdentity(hashCanonizedProof(doc.proof, env.proofHash)).value,
              [proof |-> doc.proof, document |-> [doc EXCEPT !.proof = NoProof],
               params |-> parsed.params, nquads |-> <<>>,
               mandatory |-> parts.mandatory,
               nonMandatory |-> parts.nonMandatory,
               mandatoryHash |-> sha256digest(canonize(parts.mandatory))])

\* C13: the outcome of a call is the same in every interleaving of the proof
\* hash computation with the steps of the body: it is the outcome of the call
\* run step by step on the same document with the same computations.
C13_SameInEveryInterleaving ==
    vpc = "done" =>
        vOut = SequentialOutcome(vDoc, vEnv,
                   parseDisclosureProofValue(
                       [proofValue |-> vDoc.proof.proofValue], FALSE))

\* the proof hash had failed before canonicalization failed, and the call
\* ended with the failure of canonicalization
C13_Witness ==
    /\ vpc = "done"
    /\ vPromise.state = "fulfilled"
    /\ InstanceofError(vPromise.value)
    /\ vEnv.canonize = "rejects"
    /\ vOut.kind = "throw"
    /\ vOut.thrown = JsError("jsonld.SyntaxError", "canonize failed")

-----------------------------------------------------------------------------
(* Properties of the key family (checked under SpecClassify).              *)

\* the key's text begins with the four characters z U C 7
BeginsWith_zUC7 ==
    /\ Len(kKey) >= 4
    /\ kKey[1] = 122 /\ kKey[2] = 85 /\ kKey[3] = 67 /\ kKey[4] = 55

\* C14: a verification method is given the multi-message suite exactly when
\* its publicKeyMultibase begins with 'zUC7' and the single-message suite
\* otherwise, by signCredential and by verifyCredential alike, at every call.
C14_SameFamilyAtSignAndVerify ==
    /\ kSign # "none" =>
          kSign = IF BeginsWith_zUC7 THEN "MultiMessage" ELSE "SingleMessage"
    /\ kVerify # "none" =>
          kVerify = IF BeginsWith_zUC7 THEN "MultiMessage" ELSE "SingleMessage"
    /\ (kSign # "none" /\ kVerify # "none") => kSign = kVerify

\* a key one character off the multi-message prefix, classified by both
C14_Witness ==
    /\ kKey = <<122, 85, 67, 54, 55>>
    /\ kSign = "SingleMessage"
    /\ kVerify = "SingleMessage"

-----------------------------------------------------------------------------
(* Properties of signCredential (checked under SpecSign).                  *)

\* the latest call of signCredential returned a credential
SignReturned == last.op = "sign" /\ last.outcome.kind = "return"

\* C15: for a multi-message key the mandatory pointers handed to the signer
\* are '/issuer', then '/validFrom' exactly when the credential has a
\* validFrom claim, then '/validUntil' exactly when it has a validUntil
\* claim, and nothing else.
C15_MandatoryPointers ==
    (SignReturned /\ document.proof.cryptosuite = "bbs-2023") =>
        signCall.mandatoryPointers =
            <<"/issuer">>
            \o (IF document.claims["/validFrom"] # Absent
                THEN <<"/validFrom">> ELSE <<>>)
            \o (IF document.claims["/validUntil"] # Absent
                THEN <<"/validUntil">> ELSE <<>>)

\* an option is given: it names something
Given(option) == option # Absent /\ option # ""

\* C16: in every credential signCredential returns, the issuer is exactly
\* {id: cid.id} whatever issuer the input carried; the id is credentialId
\* when one is given and the input's otherwise; credentialSubject.id is
\* subjectId when one is given and the input's otherwise.
C16_Stamped ==
    SignReturned =>
        /\ document.claims["/issuer"] = signCall.cid.id
        /\ document.claims["/issuer/name"] = Absent
        /\ document.id = IF Given(signCall.credentialId)
                         THEN signCall.credentialId ELSE signCall.document.id
        /\ document.claims["/credentialSubject/id"] =
              IF Given(signCall.subjectId) THEN signCall.subjectId
              ELSE signCall.document.claims["/credentialSubject/id"]

\* a credential with another issuer (with a name), an id and a subject was
\* signed with a credential id and a subject id
C16_Witness ==
    /\ SignReturned
    /\ signCall.document.claims["/issuer"] = "http://example.org/old-issuer"
    /\ signCall.document.claims["/issuer/name"] = "Old Issuer"
    /\ signCall.document.id = "urn:uuid:old"
    /\ signCall.document.claims["/credentialSubject/id"] = "urn:uuid:old-subject"
    /\ signCall.credentialId = "urn:uuid:credential"
    /\ signCall.subjectId = "urn:uuid:subject"
    /\ document.id = "urn:uuid:credential"
    /\ document.claims["/credentialSubject/id"] = "urn:uuid:subject"

\* keyId matches no verification method of the CID document
MethodMiss ==
    \A k \in 1..Len(signCall.cid.verificationMethod) :
        signCall.cid.verificationMethod[k].id # signCall.keyId

\* the key store holds no secret for keyId
SecretMiss ==
    \A k \in 1..Len(signCall.privateKeys) :
        signCall.privateKeys[k].id # signCall.keyId

\* C17: signCredential fails with a resolution error, without invoking a
\* signer and without returning a credential, when keyId matches no
\* verification method or the key store holds no secret for it; the miss of
\* the verification method is reported when both occur.
C17_ResolutionError ==
    (last.op = "sign" /\ (MethodMiss \/ SecretMiss)) =>
        /\ last.outcome.kind = "throw"
        /\ last.outcome.error =
              IF MethodMiss THEN <<"Error", "Key ID not found in CID document">>
              ELSE <<"Error", "Private key not found">>
        /\ oracle = <<>>
        /\ stage = "Unsigned"
        /\ document.proof = NoProof

\* both the verification method and the secret are missing
C17_Witness ==
    /\ last.op = "sign"
    /\ MethodMiss
    /\ SecretMiss
    /\ last.outcome = Throws("Error", "Key ID not found in CID document")

-----------------------------------------------------------------------------
(* Properties of deriveProof (checked under Spec).                         *)

-----------------------------------------------------------------------------
(* Properties of preprocessEd25519Verification (checked under              *)
(* SpecPreprocess).                                                        *)

\* the verifier was handed a message
Handed == pre.called /\ pre.proofHash # <<>>

\* C20: the message preprocessEd25519Verification hands to the single-message
\* verifier is the digest of the proof followed by the digest of the
\* document: its length is the sum of their lengths, its first bytes are
\* proofHash and the remaining bytes are docHash.
C20_ProofHashThenDocHash ==
    Handed =>
        /\ pre.proofHash = sha256digest(canonizeProof(document.proof))
        /\ pre.docHash = sha256digest(canonize(labelReplacementCanonicalizeJsonLd(
                             [document EXCEPT !.proof = NoProof], C14nLabelMap)))
        /\ Len(pre.message) = Len(pre.proofHash) + Len(pre.docHash)
        /\ SubSeq(pre.message, 1, Len(pre.proofHash)) = pre.proofHash
        /\ SubSeq(pre.message, Len(pre.proofHash) + 1, Len(pre.message))
              = pre.docHash

\* a credential signed with the single-message key was preprocessed, and the
\* signature verified over the message
C20_Witness ==
    /\ Handed
    /\ pre.outcome = Returns(TRUE)
    /\ document.proof.type = "Ed25519Signature2020"
    /\ Len(pre.message) = 2 * DigestLen
    /\ pre.message[1].sha256 = canonizeProof(document.proof)

-----------------------------------------------------------------------------
(* Properties of verification as an operation on the caller's objects      *)
(* (checked under Spec).                                                   *)

-----------------------------------------------------------------------------
(* Key identifiers of a generated CID document.                            *)

\* the entries of a CID document that carry the given id
EntriesWithId(cid, id) ==
    {k \in 1..Len(cid.verificationMethod) : cid.verificationMethod[k].id = id}

\* the verification method is of the single-message (Ed25519) family
IsEd25519Method(vm) == ~startsWith(vm.publicKeyMultibase, Str_zUC7)

\* C22: the verification methods of a generated CID document carry the ids
\* '<controller>#key-1' .. '<controller>#key-n' in generation order (Ed25519
\* before BBS) and are pairwise distinct; with both families the Ed25519 key
\* is '#key-1' and the BBS key '#key-2'; the id a proof references resolves
\* to exactly one entry of the signer's CID document.
C22_KeyIdsSequential ==
    /\ \A c \in Controllers :
          LET vms == cids[c].verificationMethod
          IN /\ \A k \in 1..Len(vms) : vms[k].id = KeyId(c, k)
             /\ \A j, k \in 1..Len(vms) : j # k => vms[j].id # vms[k].id
             /\ Len(vms) = 2 =>
                   /\ IsEd25519Method(vms[1])
                   /\ ~IsEd25519Method(vms[2])
             /\ cids[c].assertionMethod = [k \in 1..Len(vms) |-> KeyId(c, k)]
             /\ [k \in 1..Len(keyStores[c]) |-> keyStores[c][k].id]
                   = [k \in 1..Len(vms) |-> KeyId(c, k)]
    /\ (stage \in {"Signed", "Derived"} /\ tamper = "none") =>
          /\ document.proof.verificationMethod = signer
          /\ Cardinality(EntriesWithId(cids[SanitizedKeyId(signer)], signer)) = 1

C22_Witness ==
    /\ stage = "Signed"
    /\ tamper = "none"
    /\ signer = KeyId("http://example.org/alice", 2)
    /\ Len(cids["http://example.org/alice"].verificationMethod) = 2
    /\ Len(cids["http://example.org/bob"].verificationMethod) = 1

-----------------------------------------------------------------------------
(* URLs as text, and the loader built by cidDocumentLoader (index.js,      *)
(* bin.js).  A text is the sequence of its characters.  `new URL` is the   *)
(* WHATWG parser as far as texts without credentials, percent-encoded or   *)
(* forbidden characters, dot segments, surrounding white space and the     *)
(* file scheme reach it.                                                   *)

UpperCase ==
    <<"A", "B", "C", "D", "E", "F", "G", "H", "I", "J", "K", "L", "M",
      "N", "O", "P", "Q", "R", "S", "T", "U", "V", "W", "X", "Y", "Z">>
LowerCase ==
    <<"a", "b", "c", "d", "e", "f", "g", "h", "i", "j", "k", "l", "m",
      "n", "o", "p", "q", "r", "s", "t", "u", "v", "w", "x", "y", "z">>
DigitChars == {"0", "1", "2", "3", "4", "5", "6", "7", "8", "9"}

IsUpper(c) == \E k \in 1..Len(UpperCase) : UpperCase[k] = c
IsAlpha(c) == IsUpper(c) \/ \E k \in 1..Len(LowerCase) : LowerCase[k] = c

\* ASCII lowercase
ToLowerChar(c) ==
    IF IsUpper(c)
    THEN LowerCase[CHOOSE k \in 1..Len(UpperCase) : UpperCase[k] = c]
    ELSE c
ToLower(s) == [k \in 1..Len(s) |-> ToLowerChar(s[k])]

\* the position of the first occurrence of a character, 0 when there is none
IndexOfChar(s, c) ==
    IF \E k \in 1..Len(s) : s[k] = c
    THEN CHOOSE k \in 1..Len(s) : s[k] = c /\ \A j \in 1..(k - 1) : s[j] # c
    ELSE 0

BeforeChar(s, c) ==
    IF IndexOfChar(s, c) = 0 THEN s ELSE SubSeq(s, 1, IndexOfChar(s, c) - 1)
AfterChar(s, c) ==
    IF IndexOfChar(s, c) = 0 THEN <<>>
    ELSE SubSeq(s, IndexOfChar(s, c) + 1, Len(s))

\* scheme state: an ASCII letter, then letters, digits, '+', '-', '.'
IsSchemeText(t) ==
    /\ Len(t) > 0
    /\ IsAlpha(t[1])
    /\ \A k \in 1..Len(t) :
          IsAlpha(t[k]) \/ t[k] \in DigitChars \/ t[k] \in {"+", "-", "."}

\* the special schemes and their default ports
Scheme_http == <<"h", "t", "t", "p">>
Scheme_https == <<"h", "t", "t", "p", "s">>
Scheme_ws == <<"w", "s">>
Scheme_wss == <<"w", "s", "s">>
Scheme_ftp == <<"f", "t", "p">>
IsSpecial(scheme) ==
    scheme \in {Scheme_http, Scheme_https, Scheme_ws, Scheme_wss, Scheme_ftp}
DefaultPort(scheme) ==
    CASE scheme \in {Scheme_http, Scheme_ws} -> <<"8", "0">>
      [] scheme \in {Scheme_https, Scheme_wss} -> <<"4", "4", "3">>
      [] scheme = Scheme_ftp -> <<"2", "1">>
      [] OTHER -> <<>>

\* special authority ignore slashes state
DropLeadingSlashes(s) ==
    SubSeq(s, Cardinality({k \in 1..Len(s) : \A j \in 1..k : s[j] = "/"}) + 1,
           Len(s))

\* where the authority ends: at the first '/' or '?', or at the end
AuthorityEnd(s) ==
    Cardinality({k \in 1..Len(s) : \A j \in 1..k : s[j] \notin {"/", "?"}})

UrlFailure ==
    [ok |-> FALSE, scheme |-> <<>>, special |-> FALSE, host |-> <<>>,
     port |-> <<>>, rest |-> <<>>, hasFragment |-> FALSE, fragment |-> <<>>]

\* the URL record of a text with a special scheme: host in lower case, the
\* default port dropped, the path at least '/'
ParseSpecial(scheme, body, hasFragment, fragment) ==
    LET after == DropLeadingSlashes(body)
        authority == SubSeq(after, 1, AuthorityEnd(after))
        tail == SubSeq(after, AuthorityEnd(after) + 1, Len(after))
        host == ToLower(BeforeChar(authority, ":"))
        port == AfterChar(authority, ":")
    IN IF host = <<>> \/ \E k \in 1..Len(port) : port[k] \notin DigitChars
       THEN UrlFailure
       ELSE [ok |-> TRUE, scheme |-> scheme, special |-> TRUE, host |-> host,
             port |-> IF port = DefaultPort(scheme) THEN <<>> ELSE port,
             rest |-> IF tail = <<>> \/ tail[1] = "?" THEN <<"/">> \o tail
                      ELSE tail,
             hasFragment |-> hasFragment, fragment |-> fragment]

\* new URL(url), without a base: a TypeError (no record) for a text without a
\* scheme
ParseUrl(url) ==
    LET scheme == ToLower(BeforeChar(url, ":"))
        afterScheme == AfterChar(url, ":")
        body == BeforeChar(afterScheme, "#")
        hasFragment == IndexOfChar(afterScheme, "#") # 0
        fragment == AfterChar(afterScheme, "#")
    IN IF IndexOfChar(url, ":") = 0 \/ ~IsSchemeText(BeforeChar(url, ":"))
       THEN UrlFailure
       ELSE IF IsSpecial(scheme)
       THEN ParseSpecial(scheme, body, hasFragment, fragment)
       ELSE [ok |-> TRUE, scheme |-> scheme, special |-> FALSE, host |-> <<>>,
             port |-> <<>>, rest |-> body, hasFragment |-> hasFragment,
             fragment |-> fragment]

\* parsedUrl.hash = '': the fragment is removed
WithoutHash(parsedUrl) ==
    [parsedUrl EXCEPT !.hasFragment = FALSE, !.fragment = <<>>]

\* parsedUrl.toString(): the URL serializer
SerializeUrl(parsedUrl) ==
    parsedUrl.scheme \o <<":">>
    \o (IF parsedUrl.special
        THEN <<"/", "/">> \o parsedUrl.host
             \o (IF parsedUrl.port = <<>> THEN <<>>
                 ELSE <<":">> \o parsedUrl.port)
        ELSE <<>>)
    \o parsedUrl.rest
    \o (IF parsedUrl.hasFragment THEN <<"#">> \o parsedUrl.fragment ELSE <<>>)

\* sanitizeUrl: the serialized URL without its fragment, or the text itself
\* when it does not parse
sanitizeUrl(url) ==
    IF ParseUrl(url).ok THEN SerializeUrl(WithoutHash(ParseUrl(url))) ELSE url

Url_alice ==
    <<"h", "t", "t", "p", ":", "/", "/", "e", "x", "a", "m", "p", "l",
      "e", ".", "o", "r", "g", "/", "a", "l", "i", "c", "e">>
Url_bob ==
    <<"h", "t", "t", "p", ":", "/", "/", "e", "x", "a", "m", "p", "l",
      "e", ".", "o", "r", "g", "/", "b", "o", "b">>
Url_did ==
    <<"d", "i", "d", ":", "e", "x", "a", "m", "p", "l", "e", ":", "1">>
Url_noPath ==
    <<"h", "t", "t", "p", ":", "/", "/", "e", "x", "a", "m", "p", "l",
      "e", ".", "o", "r", "g">>
Url_upperHost ==
    <<"h", "t", "t", "p", ":", "/", "/", "E", "x", "a", "m", "p", "l",
      "e", ".", "o", "r", "g", "/", "a", "l", "i", "c", "e">>
Url_upperScheme ==
    <<"H", "T", "T", "P", ":", "/", "/", "e", "x", "a", "m", "p", "l",
      "e", ".", "o", "r", "g", "/", "a", "l", "i", "c", "e">>
Url_defaultPort ==
    <<"h", "t", "t", "p", ":", "/", "/", "e", "x", "a", "m", "p", "l",
      "e", ".", "o", "r", "g", ":", "8", "0", "/", "a", "l", "i", "c",
      "e">>
Url_webId ==
    <<"h", "t", "t", "p", ":", "/", "/", "e", "x", "a", "m", "p", "l",
      "e", ".", "o", "r", "g", "/", "a", "l", "i", "c", "e", "#", "m",
      "e">>
Url_relative ==
    <<"a", "l", "i", "c", "e">>
Url_context ==
    <<"h", "t", "t", "p", "s", ":", "/", "/", "w", "3", "i", "d", ".",
      "o", "r", "g", "/", "s", "e", "c", "u", "r", "i", "t", "y", "/",
      "v", "2">>

\* ids of CID documents: generateCID takes any text as the controller
CidIds ==
    {Url_alice, Url_bob, Url_did, Url_noPath, Url_upperHost, Url_upperScheme,
     Url_defaultPort, Url_webId, Url_relative}

\* fragments: key-1, key-2, and the empty fragment
Fragments == {<<"k", "e", "y", "-", "1">>, <<"k", "e", "y", "-", "2">>, <<>>}

WithFragment(id, fragment) == id \o <<"#">> \o fragment

\* the URLs the loader is asked for: the ids, the ids with a fragment, and a
\* context
LoaderUrls ==
    CidIds \cup {Url_context}
    \cup {WithFragment(id, fragment) : id \in CidIds, fragment \in Fragments}

\* a CID document, as far as the loader reads it
LoaderCid(id) == [id |-> id]

\* a remote document
RemoteDocument(url) ==
    [contextUrl |-> "null", document |-> [dereferenced |-> url],
     documentUrl |-> url]

\* the loader cidDocumentLoader falls back to (createDocumentLoader(...) in
\* index.js, vc.defaultDocumentLoader in bin.js): it returns the document it
\* has for the URL or throws
FallbackLoader(url, found) ==
    IF found THEN Returns(RemoteDocument(url))
    ELSE Throws("Error", "NotFoundError")

\* the loader returned by cidDocumentLoader(cid), called with a URL
cidDocumentLoader(cid, url, found) ==
    IF sanitizeUrl(url) = cid.id
    THEN [consulted |-> <<>>,
          outcome |-> Returns([contextUrl |-> "null", document |-> cid,
                               documentUrl |-> sanitizeUrl(url)])]
    ELSE [consulted |-> <<sanitizeUrl(url)>>,
          outcome |-> FallbackLoader(sanitizeUrl(url), found)]

Loaded(cid, url, found, r) ==
    load' = [cid |-> cid, url |-> url, found |-> found,
             consulted |-> r.consulted, outcome |-> r.outcome]

\* one call of the loader built for a CID document; the loader keeps nothing
\* between calls
LoadDocument ==
    /\ load = NoLoad
    /\ \E id \in CidIds, url \in LoaderUrls, found \in BOOLEAN :
          Loaded(LoaderCid(id), url, found,
                 cidDocumentLoader(LoaderCid(id), url, found))
    /\ UNCHANGED notLoadVars

NextLoader == LoadDocument

SpecLoader == InitCodec /\ [][NextLoader]_vars

\* the loader was asked for the id of its CID document followed by '#' and a
\* fragment
AskedForOwnFragment ==
    \E fragment \in Fragments : load.url = WithFragment(load.cid.id, fragment)

ReturnedCid ==
    /\ load.consulted = <<>>
    /\ load.outcome.kind = "return"
    /\ load.outcome.value.document = load.cid

\* C23: for every CID document and every URL that is the document's id
\* followed by '#' and a fragment, the loader returns the CID document itself
\* and does not consult the fallback loader; for every URL whose
\* fragment-stripped form differs from the id, it returns what the fallback
\* loader returns for the fragment-stripped URL.
C23_LoaderResolvesCid ==
    load # NoLoad =>
        /\ AskedForOwnFragment => ReturnedCid
        /\ sanitizeUrl(load.url) # load.cid.id =>
              /\ load.consulted = <<sanitizeUrl(load.url)>>
              /\ load.outcome = FallbackLoader(sanitizeUrl(load.url), load.found)

-----------------------------------------------------------------------------
(* bbs-verify-preprocess and ed25519-verify-preprocess (bin.js): the files *)
(* of a directory, or one file, are preprocessed one after the other.      *)

\* the most entries of an input directory
MaxFiles == 3

\* an entry of the input directory: a readable credential that preprocesses,
\* one that fails (unreadable, not JSON, or rejected by the preprocess
\* function), or a file whose name does not end in '.jsonld'
EntryKinds == {"valid", "failing", "other"}
DirectoryListings ==
    UNION {[1..n -> EntryKinds] : n \in 0..MaxFiles}

\* --document: a directory, one file, or a path that does not exist
DocumentOptions ==
    {[stat |-> "directory", entries |-> entries] : entries \in DirectoryListings}
    \cup {[stat |-> "file", entries |-> <<kind>>] : kind \in {"valid", "failing"}}
    \cup {[stat |-> "ENOENT", entries |-> <<>>]}

\* --output: an existing directory, an existing file, or a path that does not
\* exist
OutputOptions == {"directory", "file", "ENOENT"}

\* a file to process: its place in the listing (its name) and its kind
InputFile(name, kind) == [name |-> name, kind |-> kind]

\* filesToProcess: the '.jsonld' entries of the directory in listing order,
\* or the document path itself
FilesToProcess(documentOption) ==
    IF documentOption.stat = "directory"
    THEN LET keep == {k \in DOMAIN documentOption.entries :
                        documentOption.entries[k] # "other"}
             nth(i) == CHOOSE k \in keep :
                          Cardinality({j \in keep : j < k}) = i - 1
         IN [i \in 1..Cardinality(keep) |->
                InputFile(nth(i), documentOption.entries[nth(i)])]
    ELSE <<InputFile(1, documentOption.entries[1])>>

\* lines 206-224: stat of the document path, the list of files, the CID
\* document; any failure ends the run with status 1
BatchStarted(command, documentOption, cidReadable, output) ==
    IF \/ documentOption.stat = "ENOENT"
       \/ FilesToProcess(documentOption) = <<>>
       \/ ~cidReadable
    THEN [NoBatch EXCEPT !.pc = "exited", !.command = command,
                         !.output = output, !.outputNow = output, !.status = 1]
    ELSE [NoBatch EXCEPT !.pc = "loop", !.command = command,
                         !.files = FilesToProcess(documentOption),
                         !.output = output, !.outputNow = output, !.next = 1]

\* `${docName}-preprocessed.json` in the output directory, or the output path
InDirectory(file) == [directory |-> TRUE, docName |-> file.name]
OutputPath == [directory |-> FALSE, docName |-> 0]

\* the catch block of the loop exits when one file is processed, whichever
\* file failed
ExitOnAnyFailure(filesToProcess) == TRUE

\* line 263: filesToProcess.length === 1
ExitOnFailure(filesToProcess) == Len(filesToProcess) = 1

\* the catch block of the loop body: the error is reported; the process
\* exits with status 1 when there is one file to process
FileFailed(b) ==
    IF ExitOnFailure(b.files)
    THEN [b EXCEPT !.reported = Append(@, b.files[b.next].name),
                   !.pc = "exited", !.status = 1]
    ELSE [b EXCEPT !.reported = Append(@, b.files[b.next].name),
                   !.next = @ + 1]

\* fs.writeFile(outputPath, ...): the data of the file is written
FileWritten(b, outputPath) ==
    [b EXCEPT !.written = Append(@, [path |-> outputPath,
                                     input |-> b.files[b.next].name]),
              !.outputNow = IF outputPath = OutputPath THEN "file" ELSE @,
              !.next = @ + 1]

\* one pass of the loop body (lines 227-268): read and preprocess the file,
\* settle the output path, write
BatchFile(b) ==
    IF b.files[b.next].kind # "valid" THEN FileFailed(b)
    ELSE CASE b.outputNow = "directory" ->
                FileWritten(b, InDirectory(b.files[b.next]))
           [] b.outputNow = "file" ->
                IF Len(b.files) > 1 THEN FileFailed(b)
                ELSE FileWritten(b, OutputPath)
           [] b.outputNow = "ENOENT" -> FileWritten(b, OutputPath)

\* the action handler is called
BatchStart ==
    /\ batch = NoBatch
    /\ \E command \in {"bbs-verify-preprocess", "ed25519-verify-preprocess"},
          documentOption \in DocumentOptions, cidReadable \in BOOLEAN,
          output \in OutputOptions :
            batch' = BatchStarted(command, documentOption, cidReadable, output)
    /\ UNCHANGED notBatchVars

\* the next file is processed
BatchStep ==
    /\ batch.pc = "loop"
    /\ batch.next <= Len(batch.files)
    /\ batch' = BatchFile(batch)
    /\ UNCHANGED notBatchVars

\* the loop is over: the handler returns and the process ends with status 0
BatchEnd ==
    /\ batch.pc = "loop"
    /\ batch.next > Len(batch.files)
    /\ batch' = [batch EXCEPT !.pc = "returned"]
    /\ UNCHANGED notBatchVars

NextBatch ==
    \/ BatchStart
    \/ BatchStep
    \/ BatchEnd

SpecBatch == InitCodec /\ [][NextBatch]_vars

\* the names of the files a run has reported as failed, or written data for
ElementsOfSeq(s) == {s[k] : k \in 1..Len(s)}
WrittenInputs == {batch.written[k].input : k \in 1..Len(batch.written)}
NamesOf(files) == [k \in 1..Len(files) |-> files[k].name]

\* the files that were attempted: each one either reported or written
Attempted == ElementsOfSeq(batch.reported) \cup WrittenInputs

\* C24: with more than one input file, a failure on one file is reported and
\* does not stop the run: every remaining file is attempted and the command
\* does not exit with status 1 because of it; with exactly one input file a
\* failure exits with status 1.
C24_BatchContinuation ==
    /\ (batch.pc = "loop" /\ Len(batch.files) > 1) =>
          /\ Attempted = {batch.files[k].name : k \in 1..(batch.next - 1)}
          /\ \A k \in 1..(batch.next - 1) :
                batch.files[k].kind = "failing"
                    => batch.files[k].name \in ElementsOfSeq(batch.reported)
    /\ (batch.pc = "exited" /\ Len(batch.files) > 1) => FALSE
    /\ (batch.pc = "returned" /\ Len(batch.files) > 1) =>
          /\ batch.status = 0
          /\ Attempted = ElementsOfSeq(NamesOf(batch.files))
          /\ ElementsOfSeq(batch.reported) \cap WrittenInputs = {}
    /\ (batch.pc \in {"exited", "returned"} /\ Len(batch.files) = 1) =>
          /\ batch.files[1].kind = "failing" =>
                /\ batch.pc = "exited"
                /\ batch.status = 1
                /\ batch.reported = <<batch.files[1].name>>
                /\ batch.written = <<>>
          /\ batch.files[1].kind = "valid" =>
                /\ batch.pc = "returned"
                /\ batch.status = 0
                /\ batch.reported = <<>>

C24_Witness ==
    /\ batch.pc = "returned"
    /\ Len(batch.files) = 3
    /\ batch.files[1].kind = "failing"
    /\ batch.reported = <<batch.files[1].name>>
    /\ Len(batch.written) = 2

\* C25: when the command processes more than one input file and the output
\* path is not an existing directory, no preprocessed output file is written
\* for any input.
C25_NoOutputUnlessDirectory ==
    (Len(batch.files) > 1 /\ batch.output # "directory") => batch.written = <<>>

-----------------------------------------------------------------------------
(* documentLoader.js: a document loader with two cache directories, one    *)
(* next to the script and one in the working directory of the process.     *)

\* the most calls of documentLoader in one run
MaxLoaderCalls == 3

DlUrls == {"https://www.w3.org/ns/cid/v1", "https://example.org/context"}

\* what stands at a URL changes over time
Versions == {"v1", "v2"}

\* the result of a loader, as a JavaScript object
LoaderFields == <<"contextUrl", "document", "documentUrl", "tag">>
LoaderResult(contextUrl, doc, documentUrl, tag) ==
    [contextUrl |-> contextUrl, document |-> doc, documentUrl |-> documentUrl,
     tag |-> tag]

\* JSON.stringify of a result: the properties that are not undefined, as
\* key/value pairs in property order
JsonStringify(result) ==
    LET present == {k \in 1..Len(LoaderFields) : result[LoaderFields[k]] # Absent}
        nth(i) == CHOOSE k \in present : Cardinality({j \in present : j < k}) = i - 1
    IN [i \in 1..Cardinality(present) |->
           <<LoaderFields[nth(i)], result[LoaderFields[nth(i)]]>>]

\* JSON.parse of such a text: an object with the properties written
JsonParse(text) ==
    LET valueOf(field) ==
            IF \E k \in 1..Len(text) : text[k][1] = field
            THEN text[CHOOSE k \in 1..Len(text) : text[k][1] = field][2]
            ELSE Absent
    IN LoaderResult(valueOf("contextUrl"), valueOf("document"),
                    valueOf("documentUrl"), valueOf("tag"))

\* a cache file: missing, unreadable as JSON, or the text of a result
NoFile == [kind |-> "ENOENT", text |-> <<>>]
CorruptFile == [kind |-> "corrupt", text |-> <<>>]
JsonFile(text) == [kind |-> "json", text |-> text]

\* vc.defaultDocumentLoader(url) when it resolves
DefaultResult(url, version) == LoaderResult("null", version, url, "static")

\* lines 58-62: the result built from the fetched document
FetchedResult(url, version) == LoaderResult("null", version, url, Absent)

\* the cache file of a URL written by an earlier run
EarlierFile(url) == JsonFile(JsonStringify(DefaultResult(url, "v0")))

\* tryReadCache: the parsed content, or null
NullResult == LoaderResult(Absent, Absent, Absent, Absent)
tryReadCache(file) ==
    IF file.kind = "json" THEN [hit |-> TRUE, value |-> JsonParse(file.text)]
    ELSE [hit |-> FALSE, value |-> NullResult]

\* every cache file is looked up in the script directory, whatever it is for
GetCachePathAlwaysScript(isRead, sameDirectory) == "script"

\* getCachePath: the directory of the path (the file name is the digest of
\* the URL, one file for each URL).  The process directory is '.cache' in the
\* working directory, which is the script directory's when the tool is run
\* from its own directory
getCachePath(isRead, sameDirectory) ==
    IF isRead \/ sameDirectory THEN "script" ELSE "process"

\* fs.writeFile(processCachePath, JSON.stringify(result))
CacheWritten(d, url, result) ==
    [d EXCEPT !.disk[getCachePath(FALSE, d.sameDirectory)][url] =
                  JsonFile(JsonStringify(result))]

NoLoaderCall ==
    [url |-> Absent, outcome |-> Returns(NullResult), source |-> "none",
     defaultCalled |-> FALSE, fetched |-> FALSE]
LoaderCall(url, outcome, source, defaultCalled, fetched) ==
    [url |-> url, outcome |-> outcome, source |-> source,
     defaultCalled |-> defaultCalled, fetched |-> fetched]

\* lines 57-66: fetch the URL, cache the result and return it
FetchAndCache(d, url, defaultCalled, fetchOutcome, writeOk) ==
    IF fetchOutcome = "throws"
    THEN [d EXCEPT !.last = LoaderCall(url, Throws("TypeError", "fetch failed"),
                                       "none", defaultCalled, TRUE)]
    ELSE IF ~writeOk
    THEN [d EXCEPT !.last = LoaderCall(url, Throws("Error", "EACCES"), "none",
                                       defaultCalled, TRUE)]
    ELSE [CacheWritten(d, url, FetchedResult(url, fetchOutcome))
             EXCEPT !.last = LoaderCall(url,
                                        Returns(FetchedResult(url, fetchOutcome)),
                                        "fetch", defaultCalled, TRUE)]

\* documentLoader(url): the script cache, the process cache, the default
\* loader, the network
documentLoader(d, url, defaultOutcome, fetchOutcome, writeOk) ==
    LET scriptCacheResult == tryReadCache(d.disk[getCachePath(TRUE, d.sameDirectory)][url])
        processCacheResult == tryReadCache(d.disk[getCachePath(FALSE, d.sameDirectory)][url])
    IN IF scriptCacheResult.hit
       THEN [d EXCEPT !.last = LoaderCall(url, Returns(scriptCacheResult.value),
                                          "script", FALSE, FALSE)]
       ELSE IF processCacheResult.hit
       THEN [d EXCEPT !.last = LoaderCall(url, Returns(processCacheResult.value),
                                          "process", FALSE, FALSE)]
       ELSE IF defaultOutcome # "throws" /\ writeOk
       THEN [CacheWritten(d, url, DefaultResult(url, defaultOutcome))
                EXCEPT !.last = LoaderCall(url,
                                           Returns(DefaultResult(url, defaultOutcome)),
                                           "default", TRUE, FALSE)]
       ELSE FetchAndCache(d, url, TRUE, fetchOutcome, writeOk)

\* the files of the two cache directories when the process starts
CacheFiles(url) == {NoFile, CorruptFile, EarlierFile(url)}
Directories == {files \in [DlUrls -> {NoFile, CorruptFile} \cup {EarlierFile(u) : u \in DlUrls}] :
                   \A u \in DlUrls : files[u] \in CacheFiles(u)}
NoDirectory == [u \in DlUrls |-> NoFile]

\* the process starts: the module is loaded with the cache directories as
\* earlier runs left them
DlStart ==
    /\ dl = NoDisk
    /\ \E sameDirectory \in BOOLEAN, script \in Directories, process \in Directories :
          /\ sameDirectory => process = NoDirectory
          /\ dl' = [pc |-> "loaded", sameDirectory |-> sameDirectory,
                    disk |-> [script |-> script, process |-> process],
                    served |-> [u \in DlUrls |-> NullResult],
                    calls |-> 0, last |-> NoLoaderCall]
    /\ UNCHANGED notCacheVars

\* the first result the loader returned for each URL from the default loader
\* or the network
Serving(d) ==
    [d EXCEPT !.calls = @ + 1,
              !.served[d.last.url] =
                  IF @ = NullResult /\ d.last.source \in {"default", "fetch"}
                  THEN d.last.outcome.value ELSE @]

\* documentLoader(url) is called
DocumentLoader ==
    /\ dl.pc = "loaded"
    /\ dl.calls < MaxLoaderCalls
    /\ \E url \in DlUrls, defaultOutcome \in Versions \cup {"throws"},
          fetchOutcome \in Versions \cup {"throws"}, writeOk \in BOOLEAN :
          dl' = Serving(documentLoader(dl, url, defaultOutcome, fetchOutcome,
                                       writeOk))
    /\ UNCHANGED notCacheVars

NextCache ==
    \/ DlStart
    \/ DocumentLoader

SpecCache == InitCodec /\ [][NextCache]_vars

\* a call of documentLoader has just ended
LoaderCalled == dl.pc = "loaded" /\ dl'.calls = dl.calls + 1

\* C26: once documentLoader(url) has returned a result obtained from the
\* default loader or from the network, every later call for the same url
\* returns an equal result from a cache, without calling the default loader
\* and without fetching; an entry of the script-directory cache is preferred
\* over one of the process-directory cache; only the process-directory cache
\* is ever written.
C26_CachedAfterFirstLoad ==
    [][LoaderCalled =>
          /\ dl.served[dl'.last.url] # NullResult =>
                /\ dl'.last.outcome = Returns(dl.served[dl'.last.url])
                /\ dl'.last.source \in {"script", "process"}
                /\ ~dl'.last.defaultCalled
                /\ ~dl'.last.fetched
          /\ dl.disk.script[dl'.last.url].kind = "json" =>
                /\ dl'.last.source = "script"
                /\ dl'.last.outcome =
                      Returns(JsonParse(dl.disk.script[dl'.last.url].text))
          /\ ~dl.sameDirectory => dl'.disk.script = dl.disk.script
          /\ \A u \in DlUrls :
                u # dl'.last.url => /\ dl'.disk.script[u] = dl.disk.script[u]
                                    /\ dl'.disk.process[u] = dl.disk.process[u]
          /\ dl'.last.source \in {"script", "process", "none"} =>
                dl'.disk = dl.disk]_vars

C26_Witness ==
    /\ dl.pc = "loaded"
    /\ dl.calls = 3
    /\ ~dl.sameDirectory
    /\ dl.last.source = "process"
    /\ dl.last.url = "https://example.org/context"
    /\ dl.served["https://example.org/context"]
          = FetchedResult("https://example.org/context", "v2")
    /\ dl.disk.script["https://example.org/context"] = CorruptFile

-----------------------------------------------------------------------------
(* The order of errors at the join of _createVerifyData (checked under     *)
(* SpecVerifyData).                                                        *)

\* the failure of the proof hash computation of this call, if it fails
HashFailure == hashCanonizedProof(vLocal.proof, vEnv.proofHash).value

\* decoding, canonicalization, partitioning and mandatory hashing are over
BodyFinished ==
    /\ vLocal.params # NoParams
    /\ vLocal.nquads # <<>>
    /\ Len(vLocal.mandatory) + Len(vLocal.nonMandatory) = Len(vLocal.nquads)
    /\ vLocal.mandatoryHash # <<>>

\* C27: a failure of the proof hash is held until decoding,
\* canonicalization, partitioning and mandatory hashing have finished; if one
\* of those fails, its error is thrown and the failure of the proof hash is
\* discarded; in no interleaving is the rejection of the proof hash left
\* without a handler.
C27_HashFailureHeld ==
    /\ vPromise.state # "rejected"
    /\ (vOut.kind = "throw" /\ vEnv.proofHash # "resolves"
            /\ vOut.thrown = HashFailure) => BodyFinished
    /\ (vpc = "done" /\ ~BodySucceeds) =>
          /\ vOut.kind = "throw"
          /\ ~BodyFinished
          /\ vEnv.proofHash # "resolves" => vOut.thrown # HashFailure
          /\ vOut.thrown \in
                {JsError("jsonld.SyntaxError", "canonize failed"),
                 JsError("Error", "digest failed"),
                 JsError(parseDisclosureProofValue(
                             [proofValue |-> vDoc.proof.proofValue], FALSE).name,
                         parseDisclosureProofValue(
                             [proofValue |-> vDoc.proof.proofValue], FALSE).message)}

\* the proof hash failed first, the body ran to its end, and the join threw
\* the failure of the hash
C27_Witness ==
    /\ vpc = "done"
    /\ vEnv.proofHash = "rejectsWithError"
    /\ BodySucceeds
    /\ BodyFinished
    /\ vOut.kind = "throw"
    /\ vOut.thrown = HashFailure

-----------------------------------------------------------------------------
(* generate-cid (bin.js): runs of the command that write CID documents and *)
(* add their private keys to one file.                                     *)

\* the most runs of generate-cid
MaxRuns == 2

\* key generation is random: the pairs of one run differ from those of every
\* other run
KeyOfRun(multibase, run) ==
    [multibase EXCEPT ![Len(multibase)] = @ + 2 * run]

\* generateCIDDocument in the given run
GeneratedInRun(generated, run) ==
    [cid |-> [generated.cid EXCEPT !.verificationMethod =
                 [k \in 1..Len(@) |->
                     [@[k] EXCEPT !.publicKeyMultibase = KeyOfRun(@, run)]]],
     privateKeys |-> [k \in 1..Len(generated.privateKeys) |->
                         [generated.privateKeys[k] EXCEPT
                             !.secret = KeyOfRun(@, run)]]]

\* --output: left out, a file, or an existing directory (the file is then
\* named after the controller)
CidOutputs == {Absent, "a.jsonld", "b.jsonld", "directory"}
CidPaths ==
    {<<".", "a.jsonld">>, <<".", "b.jsonld">>}
    \cup {<<"directory", c>> : c \in Controllers}

\* lines 47-61: where the CID document is written
CidOutputPath(output, controller) ==
    IF output = "directory" THEN <<"directory", controller>>
    ELSE <<".", output>>

\* { ...existingKeys, ...privateKeys }: a key that is in both takes the new
\* value at the place of the existing one; new keys follow
MergeKeys(existingKeys, privateKeys) ==
    LET replaced ==
            [k \in 1..Len(existingKeys) |->
                IF FindById(privateKeys, existingKeys[k].id).found
                THEN privateKeys[FindById(privateKeys, existingKeys[k].id).at]
                ELSE existingKeys[k]]
        isNew(k) == ~FindById(existingKeys, privateKeys[k].id).found
        new == {k \in 1..Len(privateKeys) : isNew(k)}
        nth(i) == CHOOSE k \in new : Cardinality({j \in new : j < k}) = i - 1
    IN replaced \o [i \in 1..Cardinality(new) |-> privateKeys[nth(i)]]

\* the private-keys file: missing, not JSON, or keys by id
NoKeysFile == [kind |-> "ENOENT", keys |-> <<>>]
CorruptKeysFile == [kind |-> "corrupt", keys |-> <<>>]
KeysFile(keys) == [kind |-> "json", keys |-> keys]

\* lines 68-82: the keys are merged into the file when it can be read and
\* parsed, and written as a new file otherwise
KeysWritten(file, privateKeys) ==
    IF file.kind = "json" THEN KeysFile(MergeKeys(file.keys, privateKeys))
    ELSE KeysFile(privateKeys)

\* a CID document file, and whether the run that wrote it stored its keys
NoCidFile == [cid |-> NoCid, keysStored |-> FALSE]

\* the action handler of generate-cid
GenerateCidRun(k, controller, options, output, keysGiven) ==
    LET generated == GeneratedInRun(generateCIDDocument(controller, options),
                                    k.runs + 1)
    IN [k EXCEPT
          !.runs = @ + 1,
          !.cidFiles = IF output = Absent THEN @
                       ELSE [@ EXCEPT ![CidOutputPath(output, controller)] =
                                [cid |-> generated.cid, keysStored |-> keysGiven]],
          !.keysFile = IF keysGiven THEN KeysWritten(@, generated.privateKeys)
                       ELSE @]

\* the disk before the first run
KeyStoreStart ==
    /\ ks = NoKeyFiles
    /\ \E keysFile \in {NoKeysFile, CorruptKeysFile} :
          ks' = [pc |-> "ready", runs |-> 0,
                 cidFiles |-> [p \in CidPaths |-> NoCidFile],
                 keysFile |-> keysFile]
    /\ UNCHANGED notKeyStoreVars

\* generate-cid is run
GenerateCidCommand ==
    /\ ks.pc = "ready"
    /\ ks.runs < MaxRuns
    /\ \E controller \in Controllers, options \in CidOptions,
          output \in CidOutputs, keysGiven \in BOOLEAN :
          ks' = GenerateCidRun(ks, controller, options, output, keysGiven)
    /\ UNCHANGED notKeyStoreVars

NextKeyStore ==
    \/ KeyStoreStart
    \/ GenerateCidCommand

SpecKeyStore == InitCodec /\ [][NextKeyStore]_vars

\* the file holds, under the id of the verification method, the secret key
\* of its pair
HoldsSecretOf(keys, vm) ==
    \E k \in 1..Len(keys) :
        /\ keys[k].id = vm.id
        /\ KeyPairOf(keys[k].secret) = KeyPairOf(vm.publicKeyMultibase)

\* C28: after any sequence of generate-cid runs that write the same
\* private-keys file, the file holds, for every CID document written, the
\* secret key generated with each of its verification methods.
C28_KeyStoreHoldsEveryKey ==
    ks.pc = "ready" =>
        \A p \in CidPaths :
            ks.cidFiles[p].keysStored =>
                \A k \in 1..Len(ks.cidFiles[p].cid.verificationMethod) :
                    HoldsSecretOf(ks.keysFile.keys,
                                  ks.cidFiles[p].cid.verificationMethod[k])

-----------------------------------------------------------------------------
(* generate (bin.js): CID documents are generated, every document is       *)
(* signed with both kinds of key, the multi-message credentials are        *)
(* derived, and everything written is verified and preprocessed.  File     *)
(* names are put together from the document's name and the last segment    *)
(* of the controller's id, and taken apart again to find the CID file.     *)

\* the most controllers and the most documents of a run
MaxCids == 2
MaxDocuments == 2

Did_x_alice ==
    <<"d", "i", "d", ":", "x", ":", "a", "l", "i", "c", "e">>
Did_y_alice ==
    <<"d", "i", "d", ":", "y", ":", "a", "l", "i", "c", "e">>
Did_x_al ==
    <<"d", "i", "d", ":", "x", ":", "a", "l">>
Did_x_al_b ==
    <<"d", "i", "d", ":", "x", ":", "a", "l", "-", "b">>
Doc_m_res ==
    <<"m", "/", "r", "e", "s", ".", "j", "s", "o", "n", "l", "d">>
Doc_n_res ==
    <<"n", "/", "r", "e", "s", ".", "j", "s", "o", "n", "l", "d">>
Doc_m_my_doc ==
    <<"m", "/", "m", "y", "-", "d", "o", "c", ".", "j", "s", "o", "n",
      "l", "d">>
Ext_jsonld ==
    <<".", "j", "s", "o", "n", "l", "d">>
Text_cid_jsonld ==
    <<"-", "c", "i", "d", ".", "j", "s", "o", "n", "l", "d">>
Text_derived_jsonld ==
    <<"-", "d", "e", "r", "i", "v", "e", "d", ".", "j", "s", "o", "n",
      "l", "d">>
CidsDir ==
    <<"g", "e", "n", "e", "r", "a", "t", "e", "d", "/", "c", "i", "d",
      "s", "/">>
BbsDir ==
    <<"g", "e", "n", "e", "r", "a", "t", "e", "d", "/", "b", "b", "s",
      "/">>
Ed25519Dir ==
    <<"g", "e", "n", "e", "r", "a", "t", "e", "d", "/", "e", "d", "2",
      "5", "5", "1", "9", "/">>
DerivedDir ==
    <<"g", "e", "n", "e", "r", "a", "t", "e", "d", "/", "d", "e", "r",
      "i", "v", "e", "d", "/">>

GenControllers == {Did_x_alice, Did_y_alice, Did_x_al, Did_x_al_b}
GenDocuments == {Doc_m_res, Doc_n_res, Doc_m_my_doc}

\* the lists of 1..n different elements of a set
ListsOf(S, n) ==
    {list \in UNION {[1..k -> S] : k \in 1..n} :
        \A i, j \in 1..Len(list) : i # j => list[i] # list[j]}

\* String.prototype.split on a character
RECURSIVE Split(_, _)
Split(s, c) ==
    IF IndexOfChar(s, c) = 0 THEN <<s>>
    ELSE <<BeforeChar(s, c)>> \o Split(AfterChar(s, c), c)

\* array.pop() after split: the last piece
LastPiece(s, c) == Split(s, c)[Len(Split(s, c))]

\* String.prototype.includes
StringIncludes(s, part) ==
    \E i \in 1..(Len(s) + 1) :
        i + Len(part) - 1 <= Len(s) /\ SubSeq(s, i, i + Len(part) - 1) = part

\* String.prototype.endsWith
EndsWith(s, suffix) ==
    Len(s) >= Len(suffix)
    /\ SubSeq(s, Len(s) - Len(suffix) + 1, Len(s)) = suffix

\* path.basename(p, ext)
Basename(p, ext) ==
    LET base == LastPiece(p, "/")
    IN IF EndsWith(base, ext) /\ base # ext
       THEN SubSeq(base, 1, Len(base) - Len(ext)) ELSE base

\* what a file holds: a CID document, a signed or derived credential, or
\* preprocessed data; with the controller whose CID document it is or whose
\* key signed it
FileContent(kind, cid, doc, type) ==
    [kind |-> kind, cid |-> cid, doc |-> doc, type |-> type]
NoContent == FileContent("ENOENT", <<>>, <<>>, "none")

FileWrite(path, content) == [path |-> path, content |-> content]

\* fs.readFile(path): what the last write to the path left there
RECURSIVE ContentAt(_, _)
ContentAt(writes, path) ==
    IF writes = <<>> THEN NoContent
    ELSE IF writes[Len(writes)].path = path THEN writes[Len(writes)].content
    ELSE ContentAt(SubSeq(writes, 1, Len(writes) - 1), path)

\* line 443-444: the CID file of a controller
ShortName(cid) == LastPiece(cid, ":")
CidFile(shortName) == CidsDir \o shortName \o Text_cid_jsonld

\* lines 440-461: the CID documents are generated and written
GenerateCids(controllers) ==
    [k \in 1..Len(controllers) |->
        FileWrite(CidFile(ShortName(controllers[k])),
                  FileContent("cid", controllers[k], <<>>, "none"))]

\* lines 531-546: which CID file signs which document
SigningPlan(cidFiles, documents, distribute) ==
    IF distribute
    THEN [i \in 1..Len(documents) |->
             [cidFile |-> cidFiles[((i - 1) % Len(cidFiles)) + 1],
              docPath |-> documents[i]]]
    ELSE [i \in 1..(Len(cidFiles) * Len(documents)) |->
             [cidFile |-> cidFiles[((i - 1) \div Len(documents)) + 1],
              docPath |-> documents[((i - 1) % Len(documents)) + 1]]]

\* line 497: the file of a signed credential
SignedFile(sigType, docPath, cid) ==
    (IF sigType = "bbs" THEN BbsDir ELSE Ed25519Dir)
    \o Basename(docPath, Ext_jsonld) \o <<"-">> \o ShortName(cid) \o Ext_jsonld

\* signDocumentWithCID: the document is signed with the multi-message key
\* and with the single-message key of the CID document the file holds
SignDocumentWithCID(g, cidFile, docPath) ==
    LET cid == ContentAt(g.writes, cidFile).cid
        signed(sigType) ==
            FileWrite(SignedFile(sigType, docPath, cid),
                      FileContent("signed", cid, docPath, sigType))
    IN [g EXCEPT
          !.writes = @ \o <<signed("bbs"), signed("ed25519")>>,
          !.signedFiles = @ \o <<[file |-> signed("bbs").path, type |-> "bbs"],
                                 [file |-> signed("ed25519").path,
                                  type |-> "ed25519"]>>,
          !.next = @ + 1]

\* a file is checked against a CID document: verification or preprocessing
\* throws unless the document is the signer's, and the run ends with status 1
Checked(g, file, against) ==
    LET check == [file |-> file, signer |-> ContentAt(g.writes, file).cid,
                  against |-> against.cid]
    IN IF check.signer = check.against /\ against.kind = "cid"
       THEN [g EXCEPT !.checks = Append(@, check), !.next = @ + 1]
       ELSE [g EXCEPT !.checks = Append(@, check), !.pc = "exited",
                      !.status = 1]

\* lines 551-597: the multi-message credential is derived and written; the
\* CID file for preprocessing is the first one whose path includes the
\* second piece of the file's name
DeriveAndPreprocess(g, file) ==
    LET docName == Basename(file, Ext_jsonld)
        outputFile == DerivedDir \o docName \o Text_derived_jsonld
        derived == [g EXCEPT !.writes = Append(@,
                        FileWrite(outputFile,
                                  FileContent("derived", ContentAt(g.writes, file).cid,
                                              ContentAt(g.writes, file).doc, "bbs")))]
        piece == Split(docName, "-")[2]
        hits == {k \in 1..Len(g.cidFiles) : StringIncludes(g.cidFiles[k], piece)}
        cidFile == g.cidFiles[CHOOSE k \in hits : \A j \in hits : k <= j]
    IN IF hits = {} THEN Checked(derived, outputFile, NoContent)
       ELSE Checked(derived, outputFile, ContentAt(g.writes, cidFile))

\* lines 604-647: a file of the ed25519 or derived directory is verified
\* against the CID file its name points to
VerifyFile(g, file) ==
    LET cidName == Split(Split(LastPiece(file, "/"), "-")[2], ".")[1]
    IN Checked(g, file, ContentAt(g.writes, CidFile(cidName)))

\* fs.readdir: the files of a directory, each one once
RECURSIVE FilesIn(_, _)
FilesIn(writes, dir) ==
    IF writes = <<>> THEN <<>>
    ELSE LET before == FilesIn(SubSeq(writes, 1, Len(writes) - 1), dir)
             path == writes[Len(writes)].path
         IN IF SubSeq(path, 1, Len(dir)) = dir
               /\ \A k \in 1..Len(before) : before[k] # path
            THEN Append(before, path) ELSE before

\* the multi-message credentials that were signed
BbsFiles(g) ==
    LET bbs == {k \in 1..Len(g.signedFiles) : g.signedFiles[k].type = "bbs"}
        nth(i) == CHOOSE k \in bbs : Cardinality({j \in bbs : j < k}) = i - 1
    IN [i \in 1..Cardinality(bbs) |-> g.signedFiles[nth(i)].file]

\* the files the verification phase goes through
FilesToVerify(g) == FilesIn(g.writes, Ed25519Dir) \o FilesIn(g.writes, DerivedDir)

\* the command is started: options, directories, CID documents, private keys
GenerateStart ==
    /\ gen = NoGenerate
    /\ \E controllers \in ListsOf(GenControllers, MaxCids),
          documents \in ListsOf(GenDocuments, MaxDocuments),
          distribute \in BOOLEAN :
          gen' = [pc |-> "sign", cids |-> controllers, documents |-> documents,
                  distribute |-> distribute,
                  cidFiles |-> [k \in 1..Len(controllers) |->
                                   GenerateCids(controllers)[k].path],
                  writes |-> GenerateCids(controllers), signedFiles |-> <<>>,
                  checks |-> <<>>, next |-> 1, status |-> 0]
    /\ UNCHANGED notGenerateVars

\* the next document is signed
GenerateSign ==
    /\ gen.pc = "sign"
    /\ LET plan == SigningPlan(gen.cidFiles, gen.documents, gen.distribute)
       IN IF gen.next <= Len(plan)
          THEN gen' = SignDocumentWithCID(gen, plan[gen.next].cidFile,
                                          plan[gen.next].docPath)
          ELSE gen' = [gen EXCEPT !.pc = "derive", !.next = 1]
    /\ UNCHANGED notGenerateVars

\* the next multi-message credential is derived and preprocessed
GenerateDerive ==
    /\ gen.pc = "derive"
    /\ IF gen.next <= Len(BbsFiles(gen))
       THEN gen' = DeriveAndPreprocess(gen, BbsFiles(gen)[gen.next])
       ELSE gen' = [gen EXCEPT !.pc = "verify", !.next = 1]
    /\ UNCHANGED notGenerateVars

\* the next file is verified
GenerateVerify ==
    /\ gen.pc = "verify"
    /\ IF gen.next <= Len(FilesToVerify(gen))
       THEN gen' = VerifyFile(gen, FilesToVerify(gen)[gen.next])
       ELSE gen' = [gen EXCEPT !.pc = "returned"]
    /\ UNCHANGED notGenerateVars

NextGenerate ==
    \/ GenerateStart
    \/ GenerateSign
    \/ GenerateDerive
    \/ GenerateVerify

SpecGenerate == InitCodec /\ [][NextGenerate]_vars

\* the writes of signed and derived credentials
OutputWrites ==
    {k \in 1..Len(gen.writes) : gen.writes[k].content.kind \in {"signed", "derived"}}

\* C29: in the generate command every signed or derived output file is
\* written to a path of its own, and the verification and preprocessing
\* phases check every file against the CID document of the controller whose
\* key signed it: the CID file recovered from the file's name is the signer's.
C29_OwnPathAndSignersCid ==
    gen.pc # "idle" =>
        /\ \A i, j \in OutputWrites :
              i # j => gen.writes[i].path # gen.writes[j].path
        /\ \A k \in 1..Len(gen.checks) :
              gen.checks[k].against = gen.checks[k].signer

-----------------------------------------------------------------------------
(* What signCredential writes to (checked under SpecSign).                 *)

\* the call failed because the key id or its secret was not found
KeyNotFound(call) ==
    /\ call.op = "sign"
    /\ call.outcome.kind = "throw"
    /\ call.outcome.error \in
          {<<"Error", "Key ID not found in CID document">>,
           <<"Error", "Private key not found">>}

\* C30: signCredential writes issuer, id and credentialSubject.id into the
\* caller's credential before it looks up the verification method and the
\* secret key, so after a call that failed with a key-not-found error the
\* caller's credential carries the new issuer, the given id and the given
\* subject id (and no proof); no call of signCredential, successful or
\* failed, changes a CID document or a key store.
C30_WritesBeforeLookup ==
    [][(last.op # "sign" /\ last'.op = "sign") =>
          /\ cids' = cids
          /\ keyStores' = keyStores
          /\ signCall'.cid = cids[last'.cid]
          /\ KeyNotFound(last') =>
                /\ document'.claims["/issuer"] = cids[last'.cid].id
                /\ document'.claims["/issuer/name"] = Absent
                /\ document'.id = IF Given(signCall'.credentialId)
                                  THEN signCall'.credentialId ELSE document.id
                /\ document'.claims["/credentialSubject/id"] =
                      IF Given(signCall'.subjectId) THEN signCall'.subjectId
                      ELSE document.claims["/credentialSubject/id"]
                /\ document'.proof = document.proof]_vars

\* the method was found and its secret was not: the call failed after both
\* lookups, and the caller's credential has the new issuer, id and subject
C30_Witness ==
    /\ KeyNotFound(last)
    /\ ~MethodMiss
    /\ SecretMiss
    /\ document # signCall.document
    /\ signCall.document.claims["/issuer"] = "http://example.org/old-issuer"
    /\ document.claims["/issuer"] = signCall.cid.id
    /\ document.id = "urn:uuid:credential"
    /\ document.claims["/credentialSubject/id"] = "urn:uuid:subject"
    /\ cids[last.cid] = signCall.cid

====
